---- MODULE Spec2Model ----
(***************************************************************************)
(* Model of the in-memory indexes of bogn/rdms:                           *)
(*   - Llrb  (src/src/mem_store.rs): single-threaded left-leaning         *)
(*     red-black tree, nodes owned by value (Box), versions kept as a     *)
(*     ValueNode chain;                                                   *)
(*   - Mvcc  (src/src/mvcc.rs, src/src/llrb_node.rs): copy-on-write tree  *)
(*     over a heap of nodes, snapshots published by shift_snapshot.       *)
(* One index is driven per behaviour: Init picks the kind of index and    *)
(* the lsm flag, the actions are the public mutations.                     *)
(***************************************************************************)
EXTENDS Integers, Sequences, FiniteSets, TLC

\* ---- bounds of the model ------------------------------------------------
NumKeys == 3
MaxOps == 4
MaxCas == 2

NumReaders == 2
NumWriters == 2
MaxWrites == 3
NumShards == 2
NumCallers == 2
MaxReqs == 3
MaxWals == 2
MaxCutoff == 2
NumWalKeys == 1
MaxWalCas == 0
NumJournalKeys == 2
MaxEntries == 2
MaxFlushes == 2
NumScanKeys == 4
MaxBatch == 1
MaxRetries == 2
MaxRobtEntries == 9
MaxPurge == 2
z_blocksize == 7
m_blocksize == 7
FLUSH_QUEUE_SIZE == 64
NumSnapThreads == 2

Keys == 1..NumKeys
CasSet == 0..MaxCas
Readers == 1..NumReaders
Writers == 1..NumWriters
Shards == 1..NumShards
Callers == 1..NumCallers
WalKeys == 1..NumWalKeys
WalCas == 0..MaxWalCas
Cutoffs == 1..MaxCutoff

VARIABLES
    kind,     \* "llrb" or "mvcc": which index this behaviour drives
    lsm,      \* the lsm flag (Mvcc.lsm; the lsm argument of the Llrb calls)
    llrb,     \* Llrb { root, seqno }
    heap,     \* Mvcc: the nodes allocated so far, heap[id] is the node at address id
    snaps,    \* Mvcc: the MvccRoot records published so far, the last is the head
    views,    \* Mvcc: views[i] is what a reader that took snaps[i] observed through it
              \* when it took it (a reader takes the head: any snaps[i] may be held)
    op,       \* the last public call: name, key, cas, result, returned entry
    nops,     \* number of public mutations called so far
    written,  \* keys that were ever present in the index
    \* -- Mvcc with reader and writer threads (SpecMvcc) --
    fencer,   \* Mvcc.fencer: 0 when free, else the writer thread inside the fence
    wpc,      \* per writer thread: "idle", "fenced" between capture and publish,
              \* "shifted" in set_cas between shift_snapshot and `n.dirty = false`
    warc,     \* per writer thread: the MvccRoot its arc_mvcc designates (0: none)
    wn,       \* per writer thread: the node `optn` set_cas holds after shift_snapshot
    rpc,      \* per reader thread: "idle", "loaded" (pointer read), "holding" (Arc held)
    rptr,     \* per reader thread: the Box<Arc<MvccRoot>> it loaded, then the root it holds
    strong,   \* strong[i]: Arc strong count of MvccRoot i (snaps[i], and the
              \* preallocated `next` of the head); 0 once the MvccRoot was dropped
    \* -- the write-ahead log (SpecWal) --
    dir,      \* the WAL directory: the files in listing order, [path, batches]
    wal,      \* the Wal handle: state, index (the AtomicU64), capacity and number
              \* of threads, journals loaded and not yet handed to a shard
    shards,   \* per shard id: state of its thread, journals, active journal
    chan,     \* per shard id: the mpsc channel to its thread, oldest request first
    calls,    \* per caller: its OpWriter call and the state of its reply channel
    nreq,     \* requests sent through an OpWriter so far
    nwals,    \* Wal handles opened so far
    purged,   \* the cutoff of the last purge_before that returned, as an Option
    replay,   \* the outcome of the last replay, as an Option: result, entries applied
    acked,    \* the logged entries whose caller has got its answer
    jactive,  \* a journal on its own: the entries of its active batch
    jbuffer,  \* its encode buffer (bytes)
    jfile,    \* the bytes of its file
    jflushed, \* the batches handed to flush so far, in order
    jres,     \* what the last flush returned
    jdec,     \* the last decoding of a damaged batch, as an Option
    \* -- SkipScan over an index (SpecScan) --
    scan,     \* the index scanned, the SkipScan fields, what next() has yielded
    \* -- a Robt index file (SpecMeta) --
    ifile,    \* the bytes of the index file
    meta,     \* the meta items given to write_meta_items, what it returned and
              \* what read_meta_items returned, each as an Option
    \* -- building and reading a Robt index (SpecRobt) --
    builder,  \* Builder::build: where it is, its input and configuration, the
              \* Context of build_tree, the entries preprocess kept, the root
    iflusher, \* Builder.iflusher: the channel, whether tx is alive, the thread, its fd
    handed,   \* the blocks handed to the index flusher so far, in order
    opened,   \* what Snapshot::open and a full iter() gave, as an Option
    \* -- threads reading one Robt snapshot (SpecSnap) --
    snapshot, \* Snapshot: its meta items, its mutex (0 when free, else the thread
              \* holding the guard) and whether the mutex is poisoned
    rd        \* per thread: where it is in its call, the call, whether it has got
              \* an iterator from iter, range or reverse

\* the state of the threads around one Mvcc
threads == << fencer, wpc, warc, wn, rpc, rptr, strong >>

\* the state of the write-ahead log
walvars == << dir, wal, shards, chan, calls, nreq, nwals, purged, replay, acked >>
jrnvars == << jactive, jbuffer, jfile, jflushed, jres, jdec >>
scanvars == << scan >>
robtvars == << ifile, meta, builder, iflusher, handed, opened, snapshot, rd >>

vars == << kind, lsm, llrb, heap, snaps, views, op, nops, written, threads, walvars, jrnvars, scanvars,
          robtvars >>

\* ---- Option<T> ------------------------------------------------------------
None == << >>
Some(x) == << x >>
is_none(o) == o = << >>
is_some(o) == o # << >>
unwrap(o) == o[1]

\* the value a call writes: a token unique to the call (the code is generic in V
\* and only clones and moves values)
NewValue == nops + 1

\* =========================================================================
\* Llrb (src/src/mem_store.rs)
\* =========================================================================

ValueNode_new(data, seqno, deleted, prev) ==
    [data |-> data, seqno |-> seqno, deleted |-> deleted, prev |-> prev]

ValueNode_clone_detach(vn) == [vn EXCEPT !.prev = None]

ValueNode_delete(vn, seqno) == [vn EXCEPT !.deleted = Some(seqno)]

LNode_new(key, value, seqno, black) ==
    [key |-> key, valn |-> ValueNode_new(value, seqno, None, None),
     black |-> black, left |-> None, right |-> None]

LNode_clone_detach(n) ==
    [key |-> n.key, valn |-> ValueNode_clone_detach(n.valn),
     black |-> FALSE, left |-> None, right |-> None]

LNode_prepend_value(n, value, seqno, lsmflag) ==
    LET prev == IF lsmflag THEN Some(n.valn) ELSE None
    IN [n EXCEPT !.valn = ValueNode_new(value, seqno, None, prev)]

LNode_delete(n, seqno) == [n EXCEPT !.valn = ValueNode_delete(n.valn, seqno)]

\* AsNode::seqno and AsNode::is_deleted of the Llrb node
LNode_seqno(n) == n.valn.seqno
LNode_is_deleted(n) == is_some(n.valn.deleted)

Llrb_is_black(o) == IF is_none(o) THEN TRUE ELSE unwrap(o).black
Llrb_is_red(o) == IF is_none(o) THEN FALSE ELSE ~Llrb_is_black(o)

\* The rotation routines work on a Box<Node>; s = [n |-> node, panic |-> BOOLEAN]
\* carries the node and whether one of the routines has panicked.
LBox(n) == [n |-> n, panic |-> FALSE]
LPanic(s) == [s EXCEPT !.panic = TRUE]

\* rotate_left that leaves out `node.set_red()`
Llrb_rotate_left_no_red(s) ==
    IF s.panic THEN s
    ELSE IF Llrb_is_black(s.n.right) THEN LPanic(s)
    ELSE [s EXCEPT !.n = [unwrap(s.n.right) EXCEPT
                            !.black = s.n.black,
                            !.left = Some([s.n EXCEPT
                                             !.right = unwrap(s.n.right).left])]]

Llrb_rotate_left(s) ==
    IF s.panic THEN s
    ELSE IF Llrb_is_black(s.n.right) THEN LPanic(s)
    ELSE [s EXCEPT !.n = [unwrap(s.n.right) EXCEPT
                            !.black = s.n.black,
                            !.left = Some([s.n EXCEPT
                                             !.right = unwrap(s.n.right).left,
                                             !.black = FALSE])]]

Llrb_rotate_right(s) ==
    IF s.panic THEN s
    ELSE IF Llrb_is_black(s.n.left) THEN LPanic(s)
    ELSE [s EXCEPT !.n = [unwrap(s.n.left) EXCEPT
                            !.black = s.n.black,
                            !.right = Some([s.n EXCEPT
                                              !.left = unwrap(s.n.left).right,
                                              !.black = FALSE])]]

LNode_toggle_link(n) == [n EXCEPT !.black = ~n.black]

\* REQUIRE: left and right children must be present (as_mut().unwrap())
Llrb_flip(s) ==
    IF s.panic THEN s
    ELSE IF is_none(s.n.left) \/ is_none(s.n.right) THEN LPanic(s)
    ELSE [s EXCEPT !.n = [s.n EXCEPT
                            !.left = Some(LNode_toggle_link(unwrap(s.n.left))),
                            !.right = Some(LNode_toggle_link(unwrap(s.n.right))),
                            !.black = ~s.n.black]]

Llrb_walkdown_rot23(n) == n

\* the three steps of walkuprot_23
Llrb_walkup1(s) ==
    IF ~s.panic /\ Llrb_is_red(s.n.right) /\ Llrb_is_black(s.n.left)
    THEN Llrb_rotate_left(s) ELSE s

Llrb_walkup2(s) ==
    IF ~s.panic /\ Llrb_is_red(s.n.left) /\ Llrb_is_red(unwrap(s.n.left).left)
    THEN Llrb_rotate_right(s) ELSE s

Llrb_walkup3(s) ==
    IF ~s.panic /\ Llrb_is_red(s.n.left) /\ Llrb_is_red(s.n.right)
    THEN Llrb_flip(s) ELSE s

Llrb_walkuprot_23(s) == Llrb_walkup3(Llrb_walkup2(Llrb_walkup1(s)))

\* the three steps of fixup
Llrb_fixup1(s) ==
    IF ~s.panic /\ Llrb_is_red(s.n.right) THEN Llrb_rotate_left(s) ELSE s

Llrb_fixup2(s) ==
    IF ~s.panic /\ Llrb_is_red(s.n.left) /\ Llrb_is_red(unwrap(s.n.left).left)
    THEN Llrb_rotate_right(s) ELSE s

Llrb_fixup3(s) ==
    IF ~s.panic /\ Llrb_is_red(s.n.left) /\ Llrb_is_red(s.n.right)
    THEN Llrb_flip(s) ELSE s

Llrb_fixup(s) == Llrb_fixup3(Llrb_fixup2(Llrb_fixup1(s)))

\* node.right = Some(rotate_right(node.right.take().unwrap()))
Llrb_set_right_box(s, r) ==
    [n |-> [s.n EXCEPT !.right = Some(r.n)], panic |-> s.panic \/ r.panic]

\* move_red_left once the node is flipped
Llrb_move_red_left2(s) ==
    IF s.panic THEN s
    ELSE IF Llrb_is_red(unwrap(s.n.right).left)
    THEN Llrb_flip(Llrb_rotate_left(
             Llrb_set_right_box(s, Llrb_rotate_right(LBox(unwrap(s.n.right))))))
    ELSE s

Llrb_move_red_left(s) == Llrb_move_red_left2(Llrb_flip(s))

\* move_red_right once the node is flipped
Llrb_move_red_right2(s) ==
    IF s.panic THEN s
    ELSE IF Llrb_is_red(unwrap(s.n.left).left)
    THEN Llrb_flip(Llrb_rotate_right(s))
    ELSE s

Llrb_move_red_right(s) == Llrb_move_red_right2(Llrb_flip(s))

\* upsert / upsert_cas / do_delete / delete_min return
\*   [res0 |-> Option<node>, res1 |-> Option<node>, err |-> BOOLEAN, panic |-> BOOLEAN]
\* res0 is the subtree, res1 the old node, err is Err(InvalidCAS).
LRes(r0, r1, e, p) == [res0 |-> r0, res1 |-> r1, err |-> e, panic |-> p]

\* [Some(node), res[1].take()] for the node s the routines have walked up
LUp(s, res1) == LRes(Some(s.n), res1, FALSE, s.panic)

\* node.left = res[0].take(); node = walkuprot_23(node)
Llrb_upsert_left(n, res) ==
    LUp(Llrb_walkuprot_23([n |-> [n EXCEPT !.left = res.res0], panic |-> res.panic]),
        res.res1)

Llrb_upsert_right(n, res) ==
    LUp(Llrb_walkuprot_23([n |-> [n EXCEPT !.right = res.res0], panic |-> res.panic]),
        res.res1)

\* the key is at this node: keep a detached copy, prepend the value, walk up
Llrb_upsert_here(n, value, seqno, lsmflag) ==
    LUp(Llrb_walkuprot_23(LBox(LNode_prepend_value(n, value, seqno, lsmflag))),
        Some(LNode_clone_detach(n)))

RECURSIVE Llrb_upsert(_, _, _, _, _)
Llrb_upsert(node, key, value, seqno, lsmflag) ==
    IF is_none(node)
    THEN LRes(Some(LNode_new(key, value, seqno, FALSE)), None, FALSE, FALSE)
    ELSE IF Llrb_walkdown_rot23(unwrap(node)).key > key
    THEN Llrb_upsert_left(unwrap(node),
             Llrb_upsert(unwrap(node).left, key, value, seqno, lsmflag))
    ELSE IF Llrb_walkdown_rot23(unwrap(node)).key < key
    THEN Llrb_upsert_right(unwrap(node),
             Llrb_upsert(unwrap(node).right, key, value, seqno, lsmflag))
    ELSE Llrb_upsert_here(unwrap(node), value, seqno, lsmflag)

\* `?` returns the error at once: the subtree handed to the call is dropped
LErr == LRes(None, None, TRUE, FALSE)

Llrb_upsert_cas_left(n, res) == IF res.err THEN LErr ELSE Llrb_upsert_left(n, res)
Llrb_upsert_cas_right(n, res) == IF res.err THEN LErr ELSE Llrb_upsert_right(n, res)

RECURSIVE Llrb_upsert_cas(_, _, _, _, _, _)
Llrb_upsert_cas(node, key, value, cas, seqno, lsmflag) ==
    IF is_none(node) /\ cas > 0
    THEN LErr
    ELSE IF is_none(node)
    THEN LRes(Some(LNode_new(key, value, seqno, FALSE)), None, FALSE, FALSE)
    ELSE IF Llrb_walkdown_rot23(unwrap(node)).key > key
    THEN Llrb_upsert_cas_left(unwrap(node),
             Llrb_upsert_cas(unwrap(node).left, key, value, cas, seqno, lsmflag))
    ELSE IF Llrb_walkdown_rot23(unwrap(node)).key < key
    THEN Llrb_upsert_cas_right(unwrap(node),
             Llrb_upsert_cas(unwrap(node).right, key, value, cas, seqno, lsmflag))
    ELSE IF LNode_is_deleted(unwrap(node)) /\ cas # 0 /\ cas # LNode_seqno(unwrap(node))
    THEN LErr
    ELSE IF ~LNode_is_deleted(unwrap(node)) /\ cas # LNode_seqno(unwrap(node))
    THEN LErr
    ELSE Llrb_upsert_here(unwrap(node), value, seqno, lsmflag)

LPanicked == LRes(None, None, FALSE, TRUE)

\* node.left = res[0].take(); [Some(fixup(node)), res[1].take()]
Llrb_delete_left(n, res) ==
    LUp(Llrb_fixup([n |-> [n EXCEPT !.left = res.res0], panic |-> res.panic]),
        res.res1)

Llrb_delete_right(n, res) ==
    LUp(Llrb_fixup([n |-> [n EXCEPT !.right = res.res0], panic |-> res.panic]),
        res.res1)

\* `if !is_red(&node.left) && !is_red(&node.left.as_ref().unwrap().left)`
Llrb_lean_left(s) ==
    IF ~Llrb_is_red(s.n.left) /\ ~Llrb_is_red(unwrap(s.n.left).left)
    THEN Llrb_move_red_left(s) ELSE s

RECURSIVE Llrb_delete_min(_)

Llrb_delete_min_down(s) ==
    IF s.panic THEN LPanicked ELSE Llrb_delete_left(s.n, Llrb_delete_min(s.n.left))

Llrb_delete_min(node) ==
    IF is_none(node) THEN LRes(None, None, FALSE, FALSE)
    ELSE IF is_none(unwrap(node).left) THEN LRes(None, Some(unwrap(node)), FALSE, FALSE)
    ELSE Llrb_delete_min_down(Llrb_lean_left(LBox(unwrap(node))))

RECURSIVE Llrb_do_delete(_, _)

Llrb_do_delete_left(s, key) ==
    IF s.panic THEN LPanicked ELSE Llrb_delete_left(s.n, Llrb_do_delete(s.n.left, key))

\* `if is_red(&node.left) { node = rotate_right(node) }`
Llrb_lean_right(s) == IF Llrb_is_red(s.n.left) THEN Llrb_rotate_right(s) ELSE s

\* `if ok && !is_red(&node.right.as_ref().unwrap().left)`
Llrb_push_right(s) ==
    IF is_some(s.n.right) /\ ~Llrb_is_red(s.n.right)
       /\ ~Llrb_is_red(unwrap(s.n.right).left)
    THEN Llrb_move_red_right(s) ELSE s

\* the key is at node n and n has a right child; res is delete_min(node.right).
\* newnode is a clone of node (its key too) that takes the valn of the minimum.
Llrb_do_delete_swap(n, res) ==
    IF is_none(res.res1) \/ res.panic THEN LPanicked
    ELSE LUp(Llrb_fixup(LBox([n EXCEPT !.right = res.res0,
                                       !.valn = unwrap(res.res1).valn])),
             Some([n EXCEPT !.left = None, !.right = res.res0]))

Llrb_do_delete_ge2(s, key) ==
    IF s.panic THEN LPanicked
    ELSE IF ~(s.n.key < key)
    THEN Llrb_do_delete_swap(s.n, Llrb_delete_min(s.n.right))
    ELSE Llrb_delete_right(s.n, Llrb_do_delete(s.n.right, key))

Llrb_do_delete_ge(s, key) ==
    IF ~(s.n.key < key) /\ is_none(s.n.right)
    THEN LRes(None, Some(s.n), FALSE, s.panic)
    ELSE Llrb_do_delete_ge2(Llrb_push_right(s), key)

Llrb_do_delete(node, key) ==
    IF is_none(node) THEN LRes(None, None, FALSE, FALSE)
    ELSE IF unwrap(node).key > key
    THEN IF is_none(unwrap(node).left) THEN LRes(node, None, FALSE, FALSE)
         ELSE Llrb_do_delete_left(Llrb_lean_left(LBox(unwrap(node))), key)
    ELSE Llrb_do_delete_ge(Llrb_lean_right(LBox(unwrap(node))), key)

\* delete_lsm walks down to the key and marks it in place:
\* [root |-> the tree afterwards, old |-> Option<the marked node, detached>]
Llrb_delete_lsm_left(n, r) ==
    [root |-> Some([n EXCEPT !.left = r.root]), old |-> r.old]

Llrb_delete_lsm_right(n, r) ==
    [root |-> Some([n EXCEPT !.right = r.root]), old |-> r.old]

Llrb_delete_lsm_here(d) == [root |-> Some(d), old |-> Some(LNode_clone_detach(d))]

RECURSIVE Llrb_delete_lsm(_, _, _)
Llrb_delete_lsm(node, key, del_seqno) ==
    IF is_none(node) THEN [root |-> None, old |-> None]
    ELSE IF unwrap(node).key < key
    THEN Llrb_delete_lsm_right(unwrap(node),
             Llrb_delete_lsm(unwrap(node).right, key, del_seqno))
    ELSE IF unwrap(node).key = key
    THEN Llrb_delete_lsm_here(LNode_delete(unwrap(node), del_seqno))
    ELSE Llrb_delete_lsm_left(unwrap(node),
             Llrb_delete_lsm(unwrap(node).left, key, del_seqno))

LNode_set_black(n) == [n EXCEPT !.black = TRUE]

\* =========================================================================
\* Mvcc (src/src/mvcc.rs) over nodes of src/src/llrb_node.rs
\* =========================================================================
\* Box<Node> is an address into `heap`; a child link is Option<address>.
\* The writer's working state is c = [h |-> heap, rc |-> reclaim, panic |-> BOOLEAN];
\* routines that return a Box<Node> return [c |-> c, n |-> address].

DeltaNode_new(delta, seqno, deleted) ==
    [delta |-> delta, seqno |-> seqno, deleted |-> deleted]

\* AsDelta::seqno
DeltaNode_seqno(d) == IF is_some(d.deleted) THEN unwrap(d.deleted) ELSE d.seqno

Node_new(key, value, seqno, black) ==
    [key |-> key, value |-> value, seqno |-> seqno, deleted |-> None,
     deltas |-> << >>, black |-> black, dirty |-> TRUE,
     left |-> None, right |-> None]

\* AsEntry::seqno and AsEntry::is_deleted
Node_seqno(n) == IF is_some(n.deleted) THEN unwrap(n.deleted) ELSE n.seqno
Node_is_deleted(n) == is_some(n.deleted)

\* V::diff(old, new) is a delta d with new.merge(d) = old: the old value
Diff(old, new) == old

\* prepend_version that leaves the node's seqno as it was
Node_prepend_version_stale(n, value, seqno, lsmflag) ==
    IF lsmflag
    THEN [n EXCEPT !.deltas = Append(n.deltas,
                                DeltaNode_new(Diff(n.value, value), n.seqno, n.deleted)),
                   !.value = value, !.deleted = None]
    ELSE [n EXCEPT !.value = value]

Node_prepend_version(n, value, seqno, lsmflag) ==
    IF lsmflag
    THEN [n EXCEPT !.deltas = Append(n.deltas,
                                DeltaNode_new(Diff(n.value, value), n.seqno, n.deleted)),
                   !.value = value, !.seqno = seqno, !.deleted = None]
    ELSE [n EXCEPT !.value = value, !.seqno = seqno]

Node_delete(n, seqno) ==
    IF is_none(n.deleted) THEN [n EXCEPT !.deleted = Some(seqno)] ELSE n

Node_clone_detach(n) ==
    [n EXCEPT !.dirty = TRUE, !.left = None, !.right = None]

\* a fresh allocation: the new address is one past the last
Alloc(c, node) == [c |-> [c EXCEPT !.h = Append(c.h, node)], n |-> Len(c.h) + 1]

\* mvcc_clone that hands back the source node itself: the writer works in place
Node_mvcc_clone_alias(c, id) == [c |-> c, n |-> id]

\* mvcc_clone copies every field (dirty and the child links too) into a fresh
\* node and pushes the source on the reclaim list
Node_mvcc_clone(c, id) ==
    Alloc([c EXCEPT !.rc = Append(c.rc, id)], c.h[id])

Mvcc_is_black(h, o) == IF is_none(o) THEN TRUE ELSE h[unwrap(o)].black
Mvcc_is_red(h, o) == IF is_none(o) THEN FALSE ELSE ~h[unwrap(o)].black

\* `if old.dirty { old } else { Box::leak(old).mvcc_clone(reclaim) }`
CloneUnlessDirty(c, id) ==
    IF c.h[id].dirty THEN [c |-> c, n |-> id] ELSE Node_mvcc_clone(c, id)

MBox(c, n) == [c |-> c, n |-> n]
MPanic(s) == [s EXCEPT !.c.panic = TRUE]

\* node.right = right.left.take(); right.black = node.black; node.set_red();
\* right.left = Some(node); r is the right child as rotate_left may write it
Mvcc_rotate_left_link(node, r) ==
    MBox([r.c EXCEPT !.h = [r.c.h EXCEPT ![node].right = r.c.h[r.n].left,
                                         ![node].black = FALSE,
                                         ![r.n].black = r.c.h[node].black,
                                         ![r.n].left = Some(node)]],
         r.n)

Mvcc_rotate_left(s) ==
    IF s.c.panic THEN s
    ELSE IF Mvcc_is_black(s.c.h, s.c.h[s.n].right) THEN MPanic(s)
    ELSE Mvcc_rotate_left_link(s.n, CloneUnlessDirty(s.c, unwrap(s.c.h[s.n].right)))

Mvcc_rotate_right_link(node, l) ==
    MBox([l.c EXCEPT !.h = [l.c.h EXCEPT ![node].left = l.c.h[l.n].right,
                                         ![node].black = FALSE,
                                         ![l.n].black = l.c.h[node].black,
                                         ![l.n].right = Some(node)]],
         l.n)

Mvcc_rotate_right(s) ==
    IF s.c.panic THEN s
    ELSE IF Mvcc_is_black(s.c.h, s.c.h[s.n].left) THEN MPanic(s)
    ELSE Mvcc_rotate_right_link(s.n, CloneUnlessDirty(s.c, unwrap(s.c.h[s.n].left)))

\* left.toggle_link(); right.toggle_link(); node.toggle_link();
\* node.left = Some(left); node.right = Some(right)
Mvcc_flip_toggle(node, left, r) ==
    MBox([r.c EXCEPT !.h = [r.c.h EXCEPT ![left].black = ~r.c.h[left].black,
                                         ![r.n].black = ~r.c.h[r.n].black,
                                         ![node].black = ~r.c.h[node].black,
                                         ![node].left = Some(left),
                                         ![node].right = Some(r.n)]],
         node)

Mvcc_flip_right(node, l) ==
    Mvcc_flip_toggle(node, l.n, CloneUnlessDirty(l.c, unwrap(l.c.h[node].right)))

\* flip works on &mut Node: the node stays where it is
Mvcc_flip(s) ==
    IF s.c.panic THEN s
    ELSE IF is_none(s.c.h[s.n].left) \/ is_none(s.c.h[s.n].right) THEN MPanic(s)
    ELSE Mvcc_flip_right(s.n, CloneUnlessDirty(s.c, unwrap(s.c.h[s.n].left)))

MLeft(s) == s.c.h[s.n].left
MRight(s) == s.c.h[s.n].right

\* the three steps of walkuprot_23
Mvcc_walkup1(s) ==
    IF ~s.c.panic /\ Mvcc_is_red(s.c.h, MRight(s)) /\ ~Mvcc_is_red(s.c.h, MLeft(s))
    THEN Mvcc_rotate_left(s) ELSE s

Mvcc_walkup2(s) ==
    IF ~s.c.panic /\ Mvcc_is_red(s.c.h, MLeft(s))
       /\ Mvcc_is_red(s.c.h, s.c.h[unwrap(MLeft(s))].left)
    THEN Mvcc_rotate_right(s) ELSE s

Mvcc_walkup3(s) ==
    IF ~s.c.panic /\ Mvcc_is_red(s.c.h, MLeft(s)) /\ Mvcc_is_red(s.c.h, MRight(s))
    THEN Mvcc_flip(s) ELSE s

Mvcc_walkuprot_23(s) == Mvcc_walkup3(Mvcc_walkup2(Mvcc_walkup1(s)))

\* the first step of fixup; the other two are those of walkuprot_23
Mvcc_fixup1(s) ==
    IF ~s.c.panic /\ Mvcc_is_red(s.c.h, MRight(s)) THEN Mvcc_rotate_left(s) ELSE s

Mvcc_fixup(s) == Mvcc_walkup3(Mvcc_walkup2(Mvcc_fixup1(s)))

SetLeft(c, id, l) == [c EXCEPT !.h = [c.h EXCEPT ![id].left = l]]
SetRight(c, id, r) == [c EXCEPT !.h = [c.h EXCEPT ![id].right = r]]

\* node.right = Some(rotate_right(right)) for the rotated right child r
Mvcc_set_right_box(node, r) == MBox(SetRight(r.c, node, Some(r.n)), node)

\* move_red_left once the node is flipped
Mvcc_move_red_left2(s) ==
    IF s.c.panic THEN s
    ELSE IF Mvcc_is_red(s.c.h, s.c.h[unwrap(MRight(s))].left)
    THEN Mvcc_flip(Mvcc_rotate_left(
             Mvcc_set_right_box(s.n, Mvcc_rotate_right(MBox(s.c, unwrap(MRight(s)))))))
    ELSE s

Mvcc_move_red_left(s) == Mvcc_move_red_left2(Mvcc_flip(s))

\* move_red_right once the node is flipped
Mvcc_move_red_right2(s) ==
    IF s.c.panic THEN s
    ELSE IF Mvcc_is_red(s.c.h, s.c.h[unwrap(MLeft(s))].left)
    THEN Mvcc_flip(Mvcc_rotate_right(s))
    ELSE s

Mvcc_move_red_right(s) == Mvcc_move_red_right2(Mvcc_flip(s))

\* upsert / upsert_cas / delete_lsm return
\*   [c, root |-> Option<address> (the mvcc path), n |-> Option<address> (the node
\*    written), old |-> Option<detached copy of the old node>, err |-> InvalidCAS]
MRes(c, root, n, old, err) ==
    [c |-> c, root |-> root, n |-> n, old |-> old, err |-> err]

\* (Some(walkuprot_23(new_node)), n, o, e) for the walked-up node w
MUp(w, r) == MRes(w.c, Some(w.n), r.n, r.old, r.err)

\* new_node.left = l; walkuprot_23(new_node)
Mvcc_path_left(new_node, r) ==
    MUp(Mvcc_walkuprot_23(MBox(SetLeft(r.c, new_node, r.root), new_node)), r)

Mvcc_path_right(new_node, r) ==
    MUp(Mvcc_walkuprot_23(MBox(SetRight(r.c, new_node, r.root), new_node)), r)

\* (Some(node), Some(n), None) for a freshly allocated node
Mvcc_new_leaf(a) == MRes(a.c, Some(a.n), Some(a.n), None, FALSE)

\* the key is at new_node = cl.n: write nn over it, marked dirty, and walk up
Mvcc_write_here(cl, nn, old_node) ==
    MUp(Mvcc_walkuprot_23(
            MBox([cl.c EXCEPT !.h = [cl.c.h EXCEPT ![cl.n] = [nn EXCEPT !.dirty = TRUE]]],
                 cl.n)),
        [n |-> Some(cl.n), old |-> Some(old_node), err |-> FALSE])

RECURSIVE Mvcc_upsert(_, _, _, _, _, _)

\* upsert after `let mut new_node = node.mvcc_clone(reclaim)`; cl.n is new_node
Mvcc_upsert_at(cl, node, key, value, seqno, lsmflag) ==
    IF cl.c.h[cl.n].key > key
    THEN Mvcc_path_left(cl.n,
             Mvcc_upsert(cl.c, cl.c.h[cl.n].left, key, value, seqno, lsmflag))
    ELSE IF cl.c.h[cl.n].key < key
    THEN Mvcc_path_right(cl.n,
             Mvcc_upsert(cl.c, cl.c.h[cl.n].right, key, value, seqno, lsmflag))
    ELSE Mvcc_write_here(cl,
             Node_prepend_version(cl.c.h[cl.n], value, seqno, lsmflag),
             Node_clone_detach(cl.c.h[node]))

Mvcc_upsert(c, node, key, value, seqno, lsmflag) ==
    IF is_none(node)
    THEN Mvcc_new_leaf(Alloc(c, Node_new(key, value, seqno, FALSE)))
    ELSE Mvcc_upsert_at(Node_mvcc_clone(c, unwrap(node)), unwrap(node),
                        key, value, seqno, lsmflag)

RECURSIVE Mvcc_upsert_cas(_, _, _, _, _, _, _)

Mvcc_upsert_cas_at(cl, node, key, val, cas, seqno, lsmflag) ==
    IF cl.c.h[cl.n].key > key
    THEN Mvcc_path_left(cl.n,
             Mvcc_upsert_cas(cl.c, cl.c.h[cl.n].left, key, val, cas, seqno, lsmflag))
    ELSE IF cl.c.h[cl.n].key < key
    THEN Mvcc_path_right(cl.n,
             Mvcc_upsert_cas(cl.c, cl.c.h[cl.n].right, key, val, cas, seqno, lsmflag))
    ELSE IF Node_is_deleted(cl.c.h[cl.n]) /\ cas # 0 /\ cas # Node_seqno(cl.c.h[cl.n])
    THEN MRes(cl.c, Some(cl.n), None, None, TRUE)
    ELSE IF ~Node_is_deleted(cl.c.h[cl.n]) /\ cas # Node_seqno(cl.c.h[cl.n])
    THEN MRes(cl.c, Some(cl.n), None, None, TRUE)
    ELSE Mvcc_write_here(cl,
             Node_prepend_version(cl.c.h[cl.n], val, seqno, lsmflag),
             Node_clone_detach(cl.c.h[node]))

Mvcc_upsert_cas(c, node, key, val, cas, seqno, lsmflag) ==
    IF is_none(node) /\ cas > 0
    THEN MRes(c, None, None, None, TRUE)
    ELSE IF is_none(node)
    THEN Mvcc_new_leaf(Alloc(c, Node_new(key, val, seqno, FALSE)))
    ELSE Mvcc_upsert_cas_at(Node_mvcc_clone(c, unwrap(node)), unwrap(node),
                            key, val, cas, seqno, lsmflag)

\* V::default() of the value type
DefaultValue == 0

RECURSIVE Mvcc_delete_lsm(_, _, _, _)

Mvcc_delete_lsm_at(cl, node, key, seqno) ==
    IF cl.c.h[cl.n].key > key
    THEN Mvcc_path_left(cl.n, Mvcc_delete_lsm(cl.c, cl.c.h[cl.n].left, key, seqno))
    ELSE IF cl.c.h[cl.n].key < key
    THEN Mvcc_path_right(cl.n, Mvcc_delete_lsm(cl.c, cl.c.h[cl.n].right, key, seqno))
    ELSE Mvcc_write_here(cl, Node_delete(cl.c.h[cl.n], seqno),
                         Node_clone_detach(cl.c.h[node]))

Mvcc_delete_lsm(c, node, key, seqno) ==
    IF is_none(node)
    THEN Mvcc_new_leaf(Alloc(c, Node_delete(Node_new(key, DefaultValue, seqno, FALSE),
                                            seqno)))
    ELSE Mvcc_delete_lsm_at(Node_mvcc_clone(c, unwrap(node)), unwrap(node), key, seqno)

\* mvcc_detach: the node lets go of its children
Node_mvcc_detach(c, id) ==
    [c EXCEPT !.h = [c.h EXCEPT ![id].left = None, ![id].right = None]]

\* do_delete / delete_min return [c, root |-> Option<address>, old |-> Option<address>]
DRes(c, root, old) == [c |-> c, root |-> root, old |-> old]

\* (Some(fixup(new_node)), old_node) for the fixed-up node f
DUp(f, old) == DRes(f.c, Some(f.n), old)

\* new_node.left = left; fixup(new_node)
Mvcc_delete_left(new_node, r) ==
    DUp(Mvcc_fixup(MBox(SetLeft(r.c, new_node, r.root), new_node)), r.old)

Mvcc_delete_right(new_node, r) ==
    DUp(Mvcc_fixup(MBox(SetRight(r.c, new_node, r.root), new_node)), r.old)

\* `if !is_red(left) && !is_red(left.unwrap().left_deref())`
Mvcc_lean_left(s) ==
    IF ~Mvcc_is_red(s.c.h, MLeft(s))
       /\ ~Mvcc_is_red(s.c.h, s.c.h[unwrap(MLeft(s))].left)
    THEN Mvcc_move_red_left(s) ELSE s

RECURSIVE Mvcc_delete_min(_, _)

Mvcc_delete_min_down(s) ==
    IF s.c.panic THEN DRes(s.c, None, None)
    ELSE Mvcc_delete_left(s.n, Mvcc_delete_min(s.c, MLeft(s)))

Mvcc_delete_min_at(cl) ==
    IF is_none(MLeft(cl))
    THEN DRes(Node_mvcc_detach(cl.c, cl.n), None, Some(cl.n))
    ELSE Mvcc_delete_min_down(Mvcc_lean_left(cl))

Mvcc_delete_min(c, node) ==
    IF is_none(node) THEN DRes(c, None, None)
    ELSE Mvcc_delete_min_at(Node_mvcc_clone(c, unwrap(node)))

RECURSIVE Mvcc_do_delete(_, _, _)

Mvcc_do_delete_left(s, key) ==
    IF s.c.panic THEN DRes(s.c, None, None)
    ELSE Mvcc_delete_left(s.n, Mvcc_do_delete(s.c, MLeft(s), key))

\* `if is_red(new_node.left_deref()) { new_node = rotate_right(new_node) }`
Mvcc_lean_right(s) ==
    IF Mvcc_is_red(s.c.h, MLeft(s)) THEN Mvcc_rotate_right(s) ELSE s

\* `if ok && !is_red(new_node.right.as_ref().unwrap().left_deref())`
Mvcc_push_right(s) ==
    IF is_some(MRight(s)) /\ ~Mvcc_is_red(s.c.h, MRight(s))
       /\ ~Mvcc_is_red(s.c.h, s.c.h[unwrap(MRight(s))].left)
    THEN Mvcc_move_red_right(s) ELSE s

\* the key is at new_node and it has a right child; r is delete_min(right).
\* The minimum takes new_node's place: its children and its colour.
Mvcc_do_delete_swap(new_node, r) ==
    IF is_none(r.old) \/ r.c.panic
    THEN DRes([r.c EXCEPT !.panic = TRUE], None, None)
    ELSE DUp(Mvcc_fixup(MBox([r.c EXCEPT !.h = [r.c.h EXCEPT
                                  ![unwrap(r.old)].left = r.c.h[new_node].left,
                                  ![unwrap(r.old)].right = r.root,
                                  ![unwrap(r.old)].black = r.c.h[new_node].black,
                                  ![new_node].left = None,
                                  ![new_node].right = None]],
                             unwrap(r.old))),
             Some(new_node))

Mvcc_do_delete_ge2(s, key) ==
    IF s.c.panic THEN DRes(s.c, None, None)
    ELSE IF ~(s.c.h[s.n].key < key)
    THEN Mvcc_do_delete_swap(s.n, Mvcc_delete_min(s.c, MRight(s)))
    ELSE Mvcc_delete_right(s.n, Mvcc_do_delete(s.c, MRight(s), key))

Mvcc_do_delete_ge(s, key) ==
    IF ~(s.c.h[s.n].key < key) /\ is_none(MRight(s))
    THEN DRes(Node_mvcc_detach(s.c, s.n), None, Some(s.n))
    ELSE Mvcc_do_delete_ge2(Mvcc_push_right(s), key)

Mvcc_do_delete_at(cl, key) ==
    IF cl.c.h[cl.n].key > key
    THEN IF is_none(MLeft(cl)) THEN DRes(cl.c, Some(cl.n), None)
         ELSE Mvcc_do_delete_left(Mvcc_lean_left(cl), key)
    ELSE Mvcc_do_delete_ge(Mvcc_lean_right(cl), key)

Mvcc_do_delete(c, node, key) ==
    IF is_none(node) THEN DRes(c, None, None)
    ELSE Mvcc_do_delete_at(Node_mvcc_clone(c, unwrap(node)), key)


\* ---- MvccRoot and Snapshot --------------------------------------------------
MvccRoot_new ==
    [root |-> None, seqno |-> 0, n_count |-> 0, reclaim |-> << >>]

\* Snapshot::clone: the MvccRoot the head pointer designates
Snapshot_clone == snaps[Len(snaps)]

\* shift_snapshot that publishes the tree under the seqno of the snapshot before
shift_snapshot_stale(ss, root, seqno, n_count, reclaim) ==
    Append(ss, [root |-> root, seqno |-> ss[Len(ss)].seqno, n_count |-> n_count,
                reclaim |-> reclaim])

\* shift_snapshot that publishes the tree with the n_count of the snapshot before
shift_snapshot_keeps_count(ss, root, seqno, n_count, reclaim) ==
    Append(ss, [root |-> root, seqno |-> seqno, n_count |-> ss[Len(ss)].n_count,
                reclaim |-> reclaim])

\* shift_snapshot fills the next MvccRoot and stores it to the head pointer
shift_snapshot(ss, root, seqno, n_count, reclaim) ==
    Append(ss, [root |-> root, seqno |-> seqno, n_count |-> n_count,
                reclaim |-> reclaim])

Node_set_black(c, id) == [c EXCEPT !.h = [c.h EXCEPT ![id].black = TRUE]]

\* `n.dirty = false` on the node the call wrote
ClearDirty(c, n) ==
    IF is_none(n) THEN c
    ELSE [c EXCEPT !.h = [c.h EXCEPT ![unwrap(n)].dirty = FALSE]]

\* ---- readers ----------------------------------------------------------------
\* an entry as a reader sees it: key, value, seqno, deleted, older versions
Entry(key, value, seqno, deleted, deltas) ==
    [key |-> key, value |-> value, seqno |-> seqno, deleted |-> deleted,
     deltas |-> deltas]

Node_entry(n) == Entry(n.key, n.value, n.seqno, n.deleted, n.deltas)

\* AsNode::versions: the ValueNode chain below the current one, newest first
RECURSIVE ValueNode_value_nodes(_)
ValueNode_value_nodes(prev) ==
    IF is_none(prev) THEN << >>
    ELSE << DeltaNode_new(unwrap(prev).data, unwrap(prev).seqno, unwrap(prev).deleted) >>
         \o ValueNode_value_nodes(unwrap(prev).prev)

LNode_entry(n) ==
    Entry(n.key, n.valn.data, n.valn.seqno, n.valn.deleted,
          ValueNode_value_nodes(n.valn.prev))

\* the nodes the tree under `node` holds, with their versions, left to right
RECURSIVE Llrb_entries(_)
Llrb_entries(node) ==
    IF is_none(node) THEN << >>
    ELSE Llrb_entries(unwrap(node).left) \o << LNode_entry(unwrap(node)) >>
         \o Llrb_entries(unwrap(node).right)

\* full iteration: the in-order walk of Iter::next
RECURSIVE Mvcc_iter(_, _)
Mvcc_iter(h, node) ==
    IF is_none(node) THEN << >>
    ELSE Mvcc_iter(h, h[unwrap(node)].left) \o << Node_entry(h[unwrap(node)]) >>
         \o Mvcc_iter(h, h[unwrap(node)].right)

RECURSIVE Llrb_get_versions(_, _)
Llrb_get_versions(node, key) ==
    IF is_none(node) THEN None
    ELSE IF unwrap(node).key < key THEN Llrb_get_versions(unwrap(node).right, key)
    ELSE IF unwrap(node).key = key THEN Some(LNode_entry(unwrap(node)))
    ELSE Llrb_get_versions(unwrap(node).left, key)

RECURSIVE Mvcc_get(_, _, _)
Mvcc_get(h, node, key) ==
    IF is_none(node) THEN None
    ELSE IF h[unwrap(node)].key < key THEN Mvcc_get(h, h[unwrap(node)].right, key)
    ELSE IF h[unwrap(node)].key > key THEN Mvcc_get(h, h[unwrap(node)].left, key)
    ELSE Some(Node_entry(h[unwrap(node)]))

\* validate_tree: [err |-> "" or the error, blacks |-> black height]
VOk(b) == [err |-> "", blacks |-> b]
VErr(e) == [err |-> e, blacks |-> 0]

\* `let l = validate_tree(left)?; let r = validate_tree(right)?; if l != r {..}; Ok(l)`
validate_join(l, r) ==
    IF l.err # "" THEN l
    ELSE IF r.err # "" THEN r
    ELSE IF l.blacks # r.blacks THEN VErr("UnbalancedBlacks")
    ELSE VOk(l.blacks)

\* `if !red { blacks += 1 }`
validate_blacks(red, blacks) == IF red THEN blacks ELSE blacks + 1

RECURSIVE Mvcc_validate_tree(_, _, _, _)
Mvcc_validate_tree(h, node, fromred, blacks) ==
    IF is_none(node) THEN VOk(blacks)
    ELSE IF h[unwrap(node)].dirty THEN VErr("DirtyNode")
    ELSE IF fromred /\ Mvcc_is_red(h, node) THEN VErr("ConsecutiveReds")
    ELSE IF is_some(h[unwrap(node)].left)
            /\ h[unwrap(h[unwrap(node)].left)].key >= h[unwrap(node)].key
    THEN VErr("SortError")
    ELSE IF is_some(h[unwrap(node)].right)
            /\ h[unwrap(h[unwrap(node)].right)].key <= h[unwrap(node)].key
    THEN VErr("SortError")
    ELSE validate_join(
             Mvcc_validate_tree(h, h[unwrap(node)].left, Mvcc_is_red(h, node),
                                validate_blacks(Mvcc_is_red(h, node), blacks)),
             Mvcc_validate_tree(h, h[unwrap(node)].right, Mvcc_is_red(h, node),
                                validate_blacks(Mvcc_is_red(h, node), blacks)))

\* the same rules on the Llrb tree, whose nodes have no dirty flag
RECURSIVE Llrb_validate_tree(_, _, _)
Llrb_validate_tree(node, fromred, blacks) ==
    IF is_none(node) THEN VOk(blacks)
    ELSE IF fromred /\ Llrb_is_red(node) THEN VErr("ConsecutiveReds")
    ELSE IF is_some(unwrap(node).left)
            /\ unwrap(unwrap(node).left).key >= unwrap(node).key
    THEN VErr("SortError")
    ELSE IF is_some(unwrap(node).right)
            /\ unwrap(unwrap(node).right).key <= unwrap(node).key
    THEN VErr("SortError")
    ELSE validate_join(
             Llrb_validate_tree(unwrap(node).left, Llrb_is_red(node),
                                validate_blacks(Llrb_is_red(node), blacks)),
             Llrb_validate_tree(unwrap(node).right, Llrb_is_red(node),
                                validate_blacks(Llrb_is_red(node), blacks)))

Mvcc_validate(h, root) == Mvcc_validate_tree(h, root, Mvcc_is_red(h, root), 0)
Llrb_validate(root) == Llrb_validate_tree(root, Llrb_is_red(root), 0)

\* what a reader observes through the MvccRoot mr
View(h, mr) ==
    [seqno |-> mr.seqno, n_count |-> mr.n_count, entries |-> Mvcc_iter(h, mr.root)]

\* ---- the index as its callers see it ------------------------------------------
IndexEntries ==
    IF kind = "llrb" THEN Llrb_entries(llrb.root) ELSE Mvcc_iter(heap, Snapshot_clone.root)

get_seqno == IF kind = "llrb" THEN llrb.seqno ELSE Snapshot_clone.seqno

\* Mvcc::len is n_count; this Llrb keeps no count, its length is the number of
\* nodes in its tree
IndexLen == IF kind = "llrb" THEN Len(Llrb_entries(llrb.root)) ELSE Snapshot_clone.n_count

Get(k) ==
    IF kind = "llrb" THEN Llrb_get_versions(llrb.root, k) ELSE Mvcc_get(heap, Snapshot_clone.root, k)

KeySeq == [i \in 1..Len(IndexEntries) |-> IndexEntries[i].key]
KeySet == {IndexEntries[i].key : i \in 1..Len(IndexEntries)}

Validate ==
    IF kind = "llrb" THEN Llrb_validate(llrb.root) ELSE Mvcc_validate(heap, Snapshot_clone.root)


\* ---- the public calls ---------------------------------------------------------
Op(name, key, cas, result, old) ==
    [name |-> name, key |-> key, cas |-> cas, result |-> result, old |-> old]

\* the entry a call returns: Some(detached old node) or None
LOld(o) == IF is_none(o) THEN None ELSE Some(LNode_entry(LNode_clone_detach(unwrap(o))))
MOld(o) == IF is_none(o) THEN None ELSE Some(Node_entry(unwrap(o)))

CanCall == nops < MaxOps /\ op.result # "panic"

\* every call leaves kind and lsm alone, counts itself, records the keys present
\* and, when it published a snapshot, what a reader taking it observes
Called(newop) ==
    /\ UNCHANGED << kind, lsm, jrnvars, scanvars, robtvars >>
    /\ views' = IF Len(snaps') > Len(snaps)
                THEN Append(views, View(heap', Snapshot_clone'))
                ELSE views
    /\ op' = newop
    /\ nops' = nops + 1
    /\ written' = written \cup KeySet'

\* set / set_cas once upsert / upsert_cas returned res without an error
Llrb_set_done(name, k, cas, seqno, res) ==
    IF res.panic \/ is_none(res.res0)
    THEN /\ llrb' = [llrb EXCEPT !.root = None]
         /\ Called(Op(name, k, cas, "panic", None))
    ELSE /\ llrb' = [root |-> Some(LNode_set_black(unwrap(res.res0))),
                     seqno |-> seqno]
         /\ Called(Op(name, k, cas, "ok", LOld(res.res1)))

Llrb_set(k) ==
    /\ kind = "llrb" /\ CanCall
    /\ UNCHANGED << heap, snaps, threads, walvars, jrnvars, scanvars, robtvars >>
    /\ Llrb_set_done("set", k, 0, llrb.seqno + 1,
                     Llrb_upsert(llrb.root, k, NewValue, llrb.seqno + 1, lsm))

\* `?` returns the error after `self.root.take()`: root stays None, seqno is not set
Llrb_set_cas_done(k, cas, seqno, res) ==
    IF res.err
    THEN /\ llrb' = [llrb EXCEPT !.root = None]
         /\ Called(Op("set_cas", k, cas, "InvalidCAS", None))
    ELSE Llrb_set_done("set_cas", k, cas, seqno, res)

Llrb_set_cas(k, cas) ==
    /\ kind = "llrb" /\ CanCall
    /\ UNCHANGED << heap, snaps, threads, walvars, jrnvars, scanvars, robtvars >>
    /\ Llrb_set_cas_done(k, cas, llrb.seqno + 1,
           Llrb_upsert_cas(llrb.root, k, NewValue, cas, llrb.seqno + 1, lsm))

Llrb_delete_lsm_done(k, seqno, r) ==
    /\ llrb' = [root |-> r.root, seqno |-> seqno]
    /\ Called(Op("delete", k, 0, "ok",
                 IF is_none(r.old) THEN None ELSE Some(LNode_entry(unwrap(r.old)))))

\* self.root = res[0].take(); set_black; Some(*res[1].take().unwrap())
Llrb_do_delete_done(k, seqno, res, root) ==
    IF res.panic
    THEN /\ llrb' = [llrb EXCEPT !.root = None]
         /\ Called(Op("delete", k, 0, "panic", None))
    ELSE IF is_none(res.res1)
    THEN /\ llrb' = [llrb EXCEPT !.root = root]
         /\ Called(Op("delete", k, 0, "panic", None))
    ELSE /\ llrb' = [root |-> root, seqno |-> seqno]
         /\ Called(Op("delete", k, 0, "ok", Some(LNode_entry(unwrap(res.res1)))))

LRoot_set_black(o) == IF is_some(o) THEN Some(LNode_set_black(unwrap(o))) ELSE None

Llrb_do_delete_root(k, seqno, res) ==
    Llrb_do_delete_done(k, seqno, res, LRoot_set_black(res.res0))

Llrb_delete(k) ==
    /\ kind = "llrb" /\ CanCall
    /\ UNCHANGED << heap, snaps, threads, walvars, jrnvars, scanvars, robtvars >>
    /\ IF lsm
       THEN Llrb_delete_lsm_done(k, llrb.seqno + 1,
                                 Llrb_delete_lsm(llrb.root, k, llrb.seqno + 1))
       ELSE Llrb_do_delete_root(k, llrb.seqno + 1, Llrb_do_delete(llrb.root, k))

\* the writer starts from the heap as it is, with an empty reclaim vector
Ctx == [h |-> heap, rc |-> << >>, panic |-> FALSE]

\* the call panicked before shift_snapshot: nothing is published
Mvcc_unwind(c, newop) ==
    /\ heap' = c.h
    /\ snaps' = snaps
    /\ Called(newop)

\* self.snapshot.shift_snapshot(root, seqno, n_count, reclm)
Mvcc_publish(c, root, seqno, n_count, newop) ==
    /\ heap' = c.h
    /\ snaps' = shift_snapshot(snaps, root, seqno, n_count, c.rc)
    /\ Called(newop)

\* root.set_black() when there is a root
MRoot_set_black(c, root) ==
    IF is_some(root) THEN Node_set_black(c, unwrap(root)) ELSE c

Mvcc_set_done(k, seqno, n_count, r) ==
    IF r.c.panic \/ is_none(r.root) \/ is_none(r.n)
    THEN Mvcc_unwind(r.c, Op("set", k, 0, "panic", None))
    ELSE Mvcc_publish(ClearDirty(MRoot_set_black(r.c, r.root), r.n), r.root, seqno,
                      IF is_none(r.old) THEN n_count + 1 ELSE n_count,
                      Op("set", k, 0, "ok", MOld(r.old)))

Mvcc_set(k) ==
    /\ kind = "mvcc" /\ CanCall
    /\ UNCHANGED << llrb, threads, walvars, jrnvars, scanvars, robtvars >>
    /\ Mvcc_set_done(k, Snapshot_clone.seqno + 1, Snapshot_clone.n_count,
           Mvcc_upsert(Ctx, Snapshot_clone.root, k, NewValue,
                       Snapshot_clone.seqno + 1, lsm))

\* both arms with Some(root) reach shift_snapshot; the arm with an error keeps
\* n_count. The whole call as one step: shift_snapshot, then `n.dirty = false` on
\* the node the call wrote
Mvcc_set_cas_done(k, cas, seqno, n_count, r) ==
    IF r.c.panic \/ is_none(r.root)
    THEN Mvcc_unwind(r.c, Op("set_cas", k, cas, "panic", None))
    ELSE Mvcc_publish(ClearDirty(MRoot_set_black(r.c, r.root), r.n), r.root, seqno,
                      IF ~r.err /\ is_none(r.old) THEN n_count + 1 ELSE n_count,
                      IF r.err THEN Op("set_cas", k, cas, "InvalidCAS", None)
                      ELSE Op("set_cas", k, cas, "ok", MOld(r.old)))

Mvcc_set_cas(k, cas) ==
    /\ kind = "mvcc" /\ CanCall
    /\ UNCHANGED << llrb, threads, walvars, jrnvars, scanvars, robtvars >>
    /\ Mvcc_set_cas_done(k, cas, Snapshot_clone.seqno + 1, Snapshot_clone.n_count,
           Mvcc_upsert_cas(Ctx, Snapshot_clone.root, k, NewValue, cas,
                           Snapshot_clone.seqno + 1, lsm))

Mvcc_delete_lsm_done(k, seqno, n_count, r) ==
    IF r.c.panic
    THEN Mvcc_unwind(r.c, Op("delete", k, 0, "panic", None))
    ELSE Mvcc_publish(ClearDirty(MRoot_set_black(r.c, r.root), r.n), r.root, seqno,
                      IF is_none(r.old) THEN n_count + 1 ELSE n_count,
                      Op("delete", k, 0, "ok", MOld(r.old)))

\* the node do_delete returns has let go of its children (old_node.map(|item| *item))
Mvcc_do_delete_done(k, seqno, n_count, r) ==
    IF r.c.panic
    THEN Mvcc_unwind(r.c, Op("delete", k, 0, "panic", None))
    ELSE Mvcc_publish(MRoot_set_black(r.c, r.root), r.root, seqno,
                      IF is_some(r.old) THEN n_count - 1 ELSE n_count,
                      Op("delete", k, 0, "ok",
                         IF is_none(r.old) THEN None
                         ELSE Some(Node_entry(r.c.h[unwrap(r.old)]))))

Mvcc_delete(k) ==
    /\ kind = "mvcc" /\ CanCall
    /\ UNCHANGED << llrb, threads, walvars, jrnvars, scanvars, robtvars >>
    /\ IF lsm
       THEN Mvcc_delete_lsm_done(k, Snapshot_clone.seqno + 1, Snapshot_clone.n_count,
                Mvcc_delete_lsm(Ctx, Snapshot_clone.root, k, Snapshot_clone.seqno + 1))
       ELSE Mvcc_do_delete_done(k, Snapshot_clone.seqno + 1, Snapshot_clone.n_count,
                Mvcc_do_delete(Ctx, Snapshot_clone.root, k))

\* Snapshot::new: the head MvccRoot is held by the Box in the AtomicPtr, its
\* preallocated `next` by the head; no thread is inside a call
ThreadsInit ==
    /\ fencer = 0
    /\ wpc = [w \in Writers |-> "idle"]
    /\ warc = [w \in Writers |-> 0]
    /\ wn = [w \in Writers |-> None]
    /\ rpc = [r \in Readers |-> "idle"]
    /\ rptr = [r \in Readers |-> 0]
    /\ strong = << 1, 1 >>

\* ---- the write-ahead log before any handle is opened -------------------------
Str(x) == [s |-> x]
Num(x) == [n |-> x]

\* the thread of a shard that was not spawned: Shard::new leaves `active` zeroed
Shard_new == [state |-> "unspawned", journals |-> << >>, active |-> None]

OpWriter_idle == [pc |-> "idle", shard |-> 0, rid |-> 0, tx |-> "none", val |-> 0,
                  result |-> << >>]

\* ---- scans.rs: bounds, and SkipScan::new over an index ---------------------------
Unbounded == [t |-> "Unbounded", k |-> 0]
Included(k) == [t |-> "Included", k |-> k]
Excluded(k) == [t |-> "Excluded", k |-> k]

\* SkipScan::new, set_key_range, set_batch_size over the index with the keys idx
SkipScan_new(idx, key_start, key_end, batch_size) ==
    [index |-> idx, key_start |-> key_start, key_end |-> key_end, iter |-> << >>,
     batch_size |-> batch_size, last_batch |-> FALSE,
     range |-> << key_start, key_end >>, out |-> << >>, ended |-> FALSE, retries |-> 0,
     failed |-> FALSE, want |-> None]

\* no scan is under way
ScanNone == scan = SkipScan_new({}, Unbounded, Unbounded, 0)

\* no index file, no meta items written or read
MetaNone == meta = [items |-> None, wrote |-> None, read |-> None]

\* Context of build_tree: one empty z-block, one empty m-block
Context_new == [fpos |-> 0, zfpos |-> 0, z |-> << >>, ms |-> << << >> >>, out |-> << >>]

\* Builder::initial and Flusher::new(file, config, create = true)
Builder_initial(entries, tomb_purge, append) ==
    /\ builder = [pc |-> "tree", input |-> entries, next |-> 1, tomb_purge |-> tomb_purge,
                  c |-> Context_new, kept |-> << >>, root |-> None]
    /\ iflusher = [chan |-> << >>, tx |-> TRUE, t |-> "running", append |-> append, pos |-> 0]
    /\ handed = << >>
    /\ opened = None

\* no build under way
BuilderNone == Builder_initial(<< >>, None, TRUE)

SnapThreads == 1..NumSnapThreads

\* no snapshot is open
SnapshotNone ==
    /\ snapshot = [meta |-> << >>, mutex |-> 0, poisoned |-> FALSE]
    /\ rd = [t \in SnapThreads |-> [pc |-> "idle", call |-> "", iter |-> FALSE]]

RobtNone ==
    /\ ifile = << >>
    /\ MetaNone
    /\ BuilderNone
    /\ SnapshotNone

\* a journal just created: empty active batch, empty buffer, empty file
JournalNew ==
    /\ jactive = << >>
    /\ jbuffer = << >>
    /\ jfile = << >>
    /\ jflushed = << >>
    /\ jres = "none"
    /\ jdec = None

\* no Wal handle yet over the directory d
WalNew(d) ==
    /\ dir = d
    /\ wal = [state |-> "none", index |-> 0, capacity |-> 0, nthreads |-> 0,
              journals |-> << >>]
    /\ shards = [i \in Shards |-> Shard_new]
    /\ chan = [i \in Shards |-> << >>]
    /\ calls = [c \in Callers |-> OpWriter_idle]
    /\ nreq = 0
    /\ nwals = 0
    /\ purged = None
    /\ replay = None
    /\ acked = {}

Init ==
    /\ ThreadsInit
    /\ WalNew(<< >>)
    /\ JournalNew
    /\ ScanNone
    /\ RobtNone
    /\ kind \in {"llrb", "mvcc"}
    /\ lsm \in BOOLEAN
    /\ llrb = [root |-> None, seqno |-> 0]
    /\ heap = << >>
    /\ snaps = << MvccRoot_new >>
    /\ views = << View(<< >>, MvccRoot_new) >>
    /\ op = Op("new", 0, 0, "ok", None)
    /\ nops = 0
    /\ written = {}

Next ==
    \/ \E k \in Keys : Llrb_set(k)
    \/ \E k \in Keys, cas \in CasSet : Llrb_set_cas(k, cas)
    \/ \E k \in Keys : Llrb_delete(k)
    \/ \E k \in Keys : Mvcc_set(k)
    \/ \E k \in Keys, cas \in CasSet : Mvcc_set_cas(k, cas)
    \/ \E k \in Keys : Mvcc_delete(k)

Spec == Init /\ [][Next]_vars

\* =========================================================================
\* Mvcc under threads: writers behind the fence, readers cloning the snapshot
\* =========================================================================

\* ---- Arc<MvccRoot> -------------------------------------------------------------
\* one Arc handle on MvccRoot i goes away: the strong count goes down, and at zero
\* the MvccRoot is dropped (Drop for MvccRoot leaks root, drops reclaim and `next`,
\* the handle on MvccRoot i + 1)
RECURSIVE Arc_drop(_, _)
Arc_drop(st, i) ==
    IF i > Len(st) \/ st[i] = 0 THEN st
    ELSE IF st[i] > 1 THEN [st EXCEPT ![i] = st[i] - 1]
    ELSE Arc_drop([st EXCEPT ![i] = 0], i + 1)

\* Arc::clone on a live MvccRoot; on a dropped one the count is freed memory
Arc_clone(st, i) == IF st[i] > 0 THEN [st EXCEPT ![i] = st[i] + 1] ELSE st

\* the handles shift_snapshot moves, hd being the head it loaded: next_arc clones
\* hd's `next`, the filled MvccRoot gets a fresh `next`, and `arc`, the Box taken
\* back from the pointer, is dropped when the function returns
shift_snapshot_arcs(st, hd) ==
    Arc_drop(Append([st EXCEPT ![hd + 1] = st[hd + 1] + 1], 1), hd)

\* the nodes whose Box was dropped: the reclaim vectors of the dropped MvccRoots
Freed ==
    UNION { {snaps[i].reclaim[j] : j \in 1..Len(snaps[i].reclaim)} :
            i \in {x \in 1..Len(snaps) : strong[x] = 0} }

\* the nodes one reaches from a root
RECURSIVE Mvcc_nodes(_, _)
Mvcc_nodes(h, node) ==
    IF is_none(node) THEN {}
    ELSE {unwrap(node)} \cup Mvcc_nodes(h, h[unwrap(node)].left)
                        \cup Mvcc_nodes(h, h[unwrap(node)].right)

\* ---- the fence -------------------------------------------------------------------
\* SyncWriter::lock: one writer at a time gets past it
SyncWriter_lock(w) == fencer = 0 /\ fencer' = w

\* the guard `_lock` goes out of scope
SyncWriter_unlock(w) == fencer' = IF fencer = w THEN 0 ELSE fencer

\* a writer that enters the call without taking the fence
Mvcc_fence_skipped(w) == fencer' = fencer

\* `let _lock = self.fencer.lock();`, the first statement of set, set_cas, delete
Mvcc_fence(w) == SyncWriter_lock(w)

\* ---- a writer thread ---------------------------------------------------------------
\* the head of set / set_cas / delete: take the fence, then
\* `let arc_mvcc = Snapshot::clone(&self.snapshot);`
Mvcc_enter(w) ==
    /\ kind = "mvcc" /\ CanCall /\ nops < MaxWrites
    /\ wpc[w] = "idle"
    /\ Mvcc_fence(w)
    /\ wpc' = [wpc EXCEPT ![w] = "fenced"]
    /\ warc' = [warc EXCEPT ![w] = Len(snaps)]
    /\ strong' = Arc_clone(strong, Len(snaps))
    /\ UNCHANGED << kind, lsm, llrb, heap, snaps, views, op, nops, written, wn, rpc, rptr,
                    walvars, jrnvars, scanvars, robtvars >>

\* the call returns (or unwinds): shift_snapshot, when it ran, moved the handles;
\* then arc_mvcc and the guard are dropped
Mvcc_leave(w) ==
    /\ strong' = Arc_drop(IF Len(snaps') > Len(snaps)
                          THEN shift_snapshot_arcs(strong, Len(snaps))
                          ELSE strong, warc[w])
    /\ SyncWriter_unlock(w)
    /\ wpc' = [wpc EXCEPT ![w] = "idle"]
    /\ warc' = [warc EXCEPT ![w] = 0]
    /\ UNCHANGED << llrb, wn, rpc, rptr, walvars, jrnvars, scanvars, robtvars >>

\* the body of set from the captured snapshot arc
Mvcc_set_from(w, k, arc) ==
    /\ wpc[w] = "fenced"
    /\ Mvcc_set_done(k, arc.seqno + 1, arc.n_count,
           Mvcc_upsert(Ctx, arc.root, k, NewValue, arc.seqno + 1, lsm))
    /\ Mvcc_leave(w)

\* set_cas up to and including shift_snapshot: the tree is published with the
\* node the call wrote (optn) as upsert_cas left it, `n.dirty = false` comes after
Mvcc_set_cas_shift(w, k, cas, seqno, n_count, r) ==
    IF r.c.panic \/ is_none(r.root)
    THEN /\ Mvcc_unwind(r.c, Op("set_cas", k, cas, "panic", None))
         /\ Mvcc_leave(w)
    ELSE /\ Mvcc_publish(MRoot_set_black(r.c, r.root), r.root, seqno,
                         IF ~r.err /\ is_none(r.old) THEN n_count + 1 ELSE n_count,
                         IF r.err THEN Op("set_cas", k, cas, "InvalidCAS", None)
                         ELSE Op("set_cas", k, cas, "ok", MOld(r.old)))
         /\ strong' = shift_snapshot_arcs(strong, Len(snaps))
         /\ wpc' = [wpc EXCEPT ![w] = "shifted"]
         /\ wn' = [wn EXCEPT ![w] = r.n]
         /\ UNCHANGED << fencer, warc, llrb, rpc, rptr, walvars, scanvars, robtvars >>

Mvcc_set_cas_from(w, k, cas, arc) ==
    /\ wpc[w] = "fenced"
    /\ Mvcc_set_cas_shift(w, k, cas, arc.seqno + 1, arc.n_count,
           Mvcc_upsert_cas(Ctx, arc.root, k, NewValue, cas, arc.seqno + 1, lsm))

\* the tail of set_cas: `if let Some(mut n) = optn { n.dirty = false; .. }`, then
\* arc_mvcc and the guard are dropped
Mvcc_set_cas_tail(w) ==
    /\ wpc[w] = "shifted"
    /\ heap' = ClearDirty([h |-> heap], wn[w]).h
    /\ strong' = Arc_drop(strong, warc[w])
    /\ SyncWriter_unlock(w)
    /\ wpc' = [wpc EXCEPT ![w] = "idle"]
    /\ warc' = [warc EXCEPT ![w] = 0]
    /\ wn' = [wn EXCEPT ![w] = None]
    /\ UNCHANGED << kind, lsm, llrb, snaps, views, op, nops, written, rpc, rptr,
                    walvars, jrnvars, scanvars, robtvars >>

Mvcc_delete_from(w, k, arc) ==
    /\ wpc[w] = "fenced"
    /\ IF lsm
       THEN Mvcc_delete_lsm_done(k, arc.seqno + 1, arc.n_count,
                Mvcc_delete_lsm(Ctx, arc.root, k, arc.seqno + 1))
       ELSE Mvcc_do_delete_done(k, arc.seqno + 1, arc.n_count,
                Mvcc_do_delete(Ctx, arc.root, k))
    /\ Mvcc_leave(w)

\* the MvccRoot a fenced writer captured
Captured(w) == snaps[IF warc[w] = 0 THEN 1 ELSE warc[w]]

Writer_set(w, k) == Mvcc_set_from(w, k, Captured(w))
Writer_set_cas(w, k, cas) == Mvcc_set_cas_from(w, k, cas, Captured(w))
Writer_delete(w, k) == Mvcc_delete_from(w, k, Captured(w))

\* ---- a reader thread ---------------------------------------------------------------
\* Snapshot::clone, first half: `this.value.load(Relaxed)`
Snapshot_clone_load(r) ==
    /\ kind = "mvcc"
    /\ rpc[r] = "idle"
    /\ rpc' = [rpc EXCEPT ![r] = "loaded"]
    /\ rptr' = [rptr EXCEPT ![r] = Len(snaps)]
    /\ UNCHANGED << kind, lsm, llrb, heap, snaps, views, op, nops, written,
                    fencer, wpc, warc, wn, strong, walvars, jrnvars, scanvars, robtvars >>

\* Snapshot::clone, second half: `Arc::clone(unsafe { ptr.as_ref().unwrap() })`.
\* When shift_snapshot has dropped the Box in between, the read is of freed
\* memory: it still holds the old handle, or the handle of a Box allocated since
Snapshot_clone_arc(r, j) ==
    /\ rpc[r] = "loaded"
    /\ j \in rptr[r]..Len(snaps)
    /\ rpc' = [rpc EXCEPT ![r] = "holding"]
    /\ rptr' = [rptr EXCEPT ![r] = j]
    /\ strong' = Arc_clone(strong, j)
    /\ UNCHANGED << kind, lsm, llrb, heap, snaps, views, op, nops, written,
                    fencer, wpc, warc, wn, walvars, jrnvars, scanvars, robtvars >>

\* the reader is done with its snapshot: the Arc goes out of scope
Snapshot_release(r) ==
    /\ rpc[r] = "holding"
    /\ rpc' = [rpc EXCEPT ![r] = "idle"]
    /\ rptr' = [rptr EXCEPT ![r] = 0]
    /\ strong' = Arc_drop(strong, rptr[r])
    /\ UNCHANGED << kind, lsm, llrb, heap, snaps, views, op, nops, written,
                    fencer, wpc, warc, wn, walvars, jrnvars, scanvars, robtvars >>

InitMvcc == Init /\ kind = "mvcc"

NextMvcc ==
    \/ \E w \in Writers : Mvcc_enter(w)
    \/ \E w \in Writers, k \in Keys : Writer_set(w, k)
    \/ \E w \in Writers, k \in Keys, cas \in CasSet : Writer_set_cas(w, k, cas)
    \/ \E w \in Writers : Mvcc_set_cas_tail(w)
    \/ \E w \in Writers, k \in Keys : Writer_delete(w, k)
    \/ \E r \in Readers : Snapshot_clone_load(r)
    \/ \E r \in Readers, j \in 1..(MaxWrites + 1) : Snapshot_clone_arc(r, j)
    \/ \E r \in Readers : Snapshot_release(r)

SpecMvcc == InitMvcc /\ [][NextMvcc]_vars

\* =========================================================================
\* The write-ahead log (src/src/wal.rs)
\* =========================================================================
WalName == "wal"

\* ---- journal files ------------------------------------------------------------
\* a path is the sequence of its pieces of text, Str("..") or Num(number); the
\* separators are pieces of their own
\* Journal::create: format!("{}-shard-{}-journal-1", name, id)
Journal_path(name, id) ==
    << Str(name), Str("-"), Str("shard"), Str("-"), Num(id), Str("-"), Str("journal"), Str("-"), Num(1) >>

\* str::split: the pieces between the occurrences of sep
RECURSIVE Split(_, _, _)
Split(path, sep, piece) ==
    IF path = << >> THEN << piece >>
    ELSE IF Head(path) = Str(sep) THEN << piece >> \o Split(Tail(path), sep, << >>)
    ELSE Split(Tail(path), sep, Append(piece, Head(path)))

\* str::parse::<usize>
IsNumber(piece) == Len(piece) = 1 /\ "n" \in DOMAIN piece[1]

\* Journal::file_parts on the pieces filename.split('_') yields
Journal_file_parts_of(parts) ==
    IF Len(parts) < 5 THEN None
    ELSE IF parts[2] # << Str("shard") >> \/ parts[4] # << Str("journal") >> THEN None
    ELSE IF ~IsNumber(parts[3]) \/ ~IsNumber(parts[5]) THEN None
    ELSE Some([name |-> parts[1], id |-> parts[3][1].n, num |-> parts[5][1].n])

Journal_file_parts(path) == Journal_file_parts_of(Split(path, "_", << >>))

\* an entry of the log and the operation in it; rid names the request it came from
Entry_new_term(o, term, index) == [term |-> term, index |-> index, op |-> o]

Op_new(type, key, value, cas, rid) ==
    [type |-> type, key |-> key, value |-> value, cas |-> cas, rid |-> rid]

\* Journal::create: the file is created empty (create_new fails on an existing
\* path, see spawn_writer), the active batch is Batch::new(vec![], 0, DEFAULT_NODE)
Journal_create(name, id, num) ==
    [id |-> id, num |-> num, path |-> Journal_path(name, id), batches |-> << >>,
     active |-> Some(<< >>)]

\* Journal::load on a directory entry f, given what file_parts made of its name
Journal_load_parts(name, f, parts) ==
    IF is_none(parts) THEN None
    ELSE IF unwrap(parts).name # << Str(name) >> THEN None
    ELSE Some([id |-> unwrap(parts).id, num |-> unwrap(parts).num, path |-> f.path,
               batches |-> f.batches, active |-> None])

Journal_load(name, f) == Journal_load_parts(name, f, Journal_file_parts(f.path))

\* Journal::last_index: the index of the last entry of the last batch
Journal_last_index(jrn) ==
    jrn.batches[Len(jrn.batches)][Len(jrn.batches[Len(jrn.batches)])].index

\* the file at a path, the directory without it
FileExists(d, path) == \E i \in 1..Len(d) : d[i].path = path
Unlink(d, path) == SelectSeq(d, LAMBDA f : f.path # path)

\* the directory entries Journal::load recognises as journals of name
RECURSIVE LoadAll(_, _)
LoadAll(name, d) ==
    IF d = << >> THEN << >>
    ELSE IF is_none(Journal_load(name, Head(d))) THEN LoadAll(name, Tail(d))
    ELSE << unwrap(Journal_load(name, Head(d))) >> \o LoadAll(name, Tail(d))

\* Journal::purge on each of them
RECURSIVE PurgeAll(_, _)
PurgeAll(d, jrns) ==
    IF jrns = << >> THEN d ELSE PurgeAll(Unlink(d, Head(jrns).path), Tail(jrns))

\* ---- Wal::create, Wal::load ------------------------------------------------------
WalFresh == wal.state \in {"none", "gone"} /\ nwals < MaxWals

WalOpened(capacity, journals) ==
    /\ wal' = [state |-> "open", index |-> 0, capacity |-> capacity, nthreads |-> 0,
               journals |-> journals]
    /\ shards' = [i \in Shards |-> Shard_new]
    /\ chan' = [i \in Shards |-> << >>]
    /\ nwals' = nwals + 1
    /\ purged' = None
    /\ UNCHANGED << kind, lsm, llrb, heap, snaps, views, op, nops, written, threads,
                    calls, nreq, replay, acked, jrnvars, scanvars, robtvars >>

\* the journals of this name found in the directory are unlinked
Wal_create(nshards) ==
    /\ WalFresh
    /\ dir' = PurgeAll(dir, LoadAll(WalName, dir))
    /\ WalOpened(nshards, << >>)

\* the shard ids of the journals found must be 1..n
ShardIds(jrns) == {jrns[i].id : i \in 1..Len(jrns)}

Wal_load_done(jrns) ==
    IF ShardIds(jrns) = 1..Cardinality(ShardIds(jrns))
    THEN /\ WalOpened(Cardinality(ShardIds(jrns)), jrns)
         /\ dir' = dir
    ELSE /\ nwals' = nwals + 1
         /\ UNCHANGED << kind, lsm, llrb, heap, snaps, views, op, nops, written,
                         threads, dir, wal, shards, chan, calls, nreq, purged, replay, acked, jrnvars, scanvars, robtvars >>

Wal_load == WalFresh /\ Wal_load_done(LoadAll(WalName, dir))

\* ---- Wal::spawn_writer -------------------------------------------------------------
Shard_last_journal_num(jrns) == IF jrns = << >> THEN 1 ELSE jrns[Len(jrns)].num

\* the journals of shard id leave self.journals; Shard::spawn creates the active
\* journal, and the `?` returns its error when the path exists already
Wal_spawn_writer_id(id, mine, rest) ==
    IF FileExists(dir, Journal_path(WalName, id))
    THEN /\ wal' = [wal EXCEPT !.journals = rest]
         /\ UNCHANGED << dir, shards >>
    ELSE /\ wal' = [wal EXCEPT !.journals = rest, !.nthreads = id]
         /\ dir' = Append(dir, [path |-> Journal_path(WalName, id), batches |-> << >>])
         /\ shards' = [shards EXCEPT ![id] =
                [state |-> "running", journals |-> mine,
                 active |-> Some(Journal_create(WalName, id,
                                                Shard_last_journal_num(mine)))]]

Wal_spawn_writer ==
    /\ wal.state = "open"
    /\ wal.nthreads < wal.capacity
    /\ wal.nthreads < NumShards
    /\ Wal_spawn_writer_id(wal.nthreads + 1,
           SelectSeq(wal.journals, LAMBDA j : j.id = wal.nthreads + 1),
           SelectSeq(wal.journals, LAMBDA j : j.id # wal.nthreads + 1))
    /\ UNCHANGED << kind, lsm, llrb, heap, snaps, views, op, nops, written, threads,
                    chan, calls, nreq, nwals, purged, replay, acked, jrnvars, scanvars, robtvars >>

\* the entries in the active batch of a journal, as a set and as the shards hold them
ActiveEntries(sh) ==
    IF is_none(sh.active) THEN << >> ELSE unwrap(unwrap(sh.active).active)

LoggedEntries ==
    UNION { {ActiveEntries(shards[i])[j] : j \in 1..Len(ActiveEntries(shards[i]))} :
            i \in Shards }

\* ---- OpWriter: the callers -----------------------------------------------------
Opreq(type, key, value, cas, before, tx, rid) ==
    [type |-> type, key |-> key, value |-> value, cas |-> cas, before |-> before,
     tx |-> tx, rid |-> rid]

\* the reply senders inside the requests reqs are dropped without a send
DropSenders(cs, reqs) ==
    [c \in Callers |->
        IF \E i \in 1..Len(reqs) : reqs[i].tx = c /\ reqs[i].rid = cs[c].rid
        THEN [cs[c] EXCEPT !.tx = "dropped"] ELSE cs[c]]

\* `self.tx.send(req)` then the caller waits in `resp_rx.recv()`; a send to a
\* thread that has exited fails and drops the request with its reply sender
OpWriter_send(c, s, req) ==
    /\ calls[c].pc \in {"idle", "returned"}
    /\ nreq < MaxReqs
    /\ shards[s].state # "unspawned"
    /\ nreq' = nreq + 1
    /\ IF shards[s].state = "running"
       THEN /\ chan' = [chan EXCEPT ![s] = Append(chan[s], req)]
            /\ calls' = [calls EXCEPT ![c] =
                   [pc |-> "waiting", shard |-> s, rid |-> req.rid, tx |-> "held",
                    val |-> 0, result |-> << >>]]
       ELSE /\ chan' = chan
            /\ calls' = [calls EXCEPT ![c] =
                   [pc |-> "waiting", shard |-> s, rid |-> req.rid, tx |-> "dropped",
                    val |-> 0, result |-> << >>]]
    /\ UNCHANGED << kind, lsm, llrb, heap, snaps, views, op, nops, written, threads,
                    dir, wal, shards, nwals, purged, replay, acked, jrnvars, scanvars, robtvars >>

OpWriter_set(c, s, k) ==
    OpWriter_send(c, s, Opreq("Set", k, nreq + 1, 0, 0, c, nreq + 1))

OpWriter_set_cas(c, s, k, cas) ==
    OpWriter_send(c, s, Opreq("SetCAS", k, nreq + 1, cas, 0, c, nreq + 1))

OpWriter_delete(c, s, k) ==
    OpWriter_send(c, s, Opreq("Delete", k, 0, 0, 0, c, nreq + 1))

\* resp_rx.recv(): the index the shard sent, or RecvError once the sender is gone
OpWriter_recv(c) ==
    /\ calls[c].pc = "waiting"
    /\ calls[c].tx \in {"sent", "dropped"}
    /\ calls' = [calls EXCEPT ![c].pc = "returned",
                              ![c].result = IF calls[c].tx = "sent"
                                            THEN << "Ok", calls[c].val >>
                                            ELSE << "RecvError" >>]
    /\ acked' = acked \cup {e \in LoggedEntries : e.op.rid = calls[c].rid}
    /\ UNCHANGED << kind, lsm, llrb, heap, snaps, views, op, nops, written, threads,
                    dir, wal, shards, chan, nreq, nwals, purged, replay, jrnvars, scanvars, robtvars >>

\* ---- the thread of a shard -------------------------------------------------------
\* fetch_add that hands out the value and leaves the counter where it was
AtomicU64_fetch_add_lost(v) == v

\* self.wal_index.fetch_add(1, Relaxed): the counter afterwards (the value handed
\* out is the one before)
AtomicU64_fetch_add(v) == v + 1

\* Batch::add_entry on the active batch of the journal
Journal_add_entry(jrn, entry) ==
    [jrn EXCEPT !.active = Some(Append(unwrap(jrn.active), entry))]

\* Journal::handle_op -> handle_set / handle_set_cas / handle_delete: the entry is
\* built with the term of the active batch (0) and added to it; tx goes out of
\* scope at the end of the handler
Journal_handle_op(s, index, cmd) ==
    /\ shards' = [shards EXCEPT ![s].active = Some(Journal_add_entry(
           unwrap(shards[s].active),
           Entry_new_term(Op_new(cmd.type, cmd.key, cmd.value, cmd.cas, cmd.rid),
                          0, index)))]
    /\ calls' = DropSenders(calls, << cmd >>)
    /\ chan' = [chan EXCEPT ![s] = Tail(chan[s])]
    /\ wal' = [wal EXCEPT !.index = AtomicU64_fetch_add(wal.index)]
    /\ dir' = dir

\* Shard::handle_purge_before: the journals whose last index is before the cutoff
\* leave the list and are unlinked; then the arm replies `tx.send(true)`
Shard_handle_purge_before(s, cmd) ==
    /\ shards' = [shards EXCEPT ![s].journals =
           SelectSeq(shards[s].journals,
                     LAMBDA j : ~(Journal_last_index(j) < cmd.before))]
    /\ dir' = PurgeAll(dir, SelectSeq(shards[s].journals,
                     LAMBDA j : Journal_last_index(j) < cmd.before))
    /\ chan' = [chan EXCEPT ![s] = Tail(chan[s])]
    /\ UNCHANGED << wal, calls >>

\* Opreq::Close => return: the thread ends, the receiver and what is queued in it
\* are dropped
Shard_close(s) ==
    /\ shards' = [shards EXCEPT ![s].state = "exited"]
    /\ calls' = DropSenders(calls, Tail(chan[s]))
    /\ chan' = [chan EXCEPT ![s] = << >>]
    /\ UNCHANGED << wal, dir >>

\* one turn of `for cmd in rx { match cmd { .. } }`
Shard_spawn_loop(s, cmd) ==
    IF cmd.type = "PurgeBefore" THEN Shard_handle_purge_before(s, cmd)
    ELSE IF cmd.type = "Close" THEN Shard_close(s)
    ELSE Journal_handle_op(s, wal.index, cmd)

Shard_recv(s) ==
    /\ shards[s].state = "running"
    /\ chan[s] # << >>
    /\ Shard_spawn_loop(s, Head(chan[s]))
    /\ UNCHANGED << kind, lsm, llrb, heap, snaps, views, op, nops, written, threads,
                    nreq, nwals, purged, replay, acked, jrnvars, scanvars, robtvars >>

\* ---- Wal::purge_before, Drop for Wal, Wal::replay ----------------------------------
\* `let (tx, rx) = mpsc::sync_channel()` inside the loop shadows the sender of the
\* shard: the request is sent on the reply channel itself and read back from it,
\* no shard is told
Wal_purge_before(before) ==
    /\ wal.state = "open"
    /\ purged' = Some(before)
    /\ UNCHANGED << kind, lsm, llrb, heap, snaps, views, op, nops, written, threads,
                    dir, wal, shards, chan, calls, nreq, nwals, replay, acked, jrnvars, scanvars, robtvars >>

\* Close goes to every shard that was spawned
SendClose(ch) ==
    [i \in Shards |->
        IF shards[i].state = "running"
        THEN Append(ch[i], Opreq("Close", 0, 0, 0, 0, 0, 0)) ELSE ch[i]]

\* Drop for Wal, first loop: `tx.send(Opreq::close())` to each shard
Wal_drop ==
    /\ wal.state = "open"
    /\ wal' = [wal EXCEPT !.state = "closing"]
    /\ chan' = SendClose(chan)
    /\ UNCHANGED << kind, lsm, llrb, heap, snaps, views, op, nops, written, threads,
                    dir, shards, calls, nreq, nwals, purged, replay, acked, jrnvars, scanvars, robtvars >>

\* Drop for Wal, second loop: every thread is joined
Wal_drop_join ==
    /\ wal.state = "closing"
    /\ \A i \in Shards : shards[i].state # "running"
    /\ wal' = [wal EXCEPT !.state = "gone"]
    /\ UNCHANGED << kind, lsm, llrb, heap, snaps, views, op, nops, written, threads,
                    dir, shards, chan, calls, nreq, nwals, purged, replay, acked, jrnvars, scanvars, robtvars >>

\* Journal::to_iter opens the journal with create_new(true): on a path that
\* exists the open fails, and replay returns the error of the first journal
Journal_to_iter(jrn) == IF FileExists(dir, jrn.path) THEN "Err" ELSE "Ok"

\* Wal::replay: refused with active shards; else the journals are visited in the
\* order of self.journals. The handle is consumed: Drop for Wal runs at the end
Wal_replay ==
    /\ wal.state = "open"
    /\ replay' = Some(IF wal.nthreads > 0 THEN [result |-> "InvalidWAL", applied |-> << >>]
                      ELSE IF wal.journals # << >>
                              /\ Journal_to_iter(wal.journals[1]) = "Err"
                      THEN [result |-> "Err", applied |-> << >>]
                      ELSE [result |-> "Ok", applied |-> << >>])
    /\ wal' = [wal EXCEPT !.state = "closing"]
    /\ chan' = SendClose(chan)
    /\ UNCHANGED << kind, lsm, llrb, heap, snaps, views, op, nops, written, threads,
                    dir, shards, calls, nreq, nwals, purged, acked, jrnvars, scanvars, robtvars >>

\* ---- the directory a Wal is opened over ----------------------------------------------
\* a journal of shard 1 left in the directory under a name file_parts accepts:
\* one batch with two entries
ForeignPath ==
    << Str(WalName), Str("_"), Str("shard"), Str("_"), Num(1), Str("_"),
       Str("journal"), Str("_"), Num(1) >>

ForeignJournal ==
    [path |-> ForeignPath,
     batches |-> << << Entry_new_term(Op_new("Set", 1, 0, 0, 0), 0, 0),
                       Entry_new_term(Op_new("Set", 2, 0, 0, 0), 0, 1) >> >>]

\* a second journal of shard 1, journal number 2, holding one later entry
ForeignPath2 ==
    << Str(WalName), Str("_"), Str("shard"), Str("_"), Num(1), Str("_"),
       Str("journal"), Str("_"), Num(2) >>

ForeignJournal2 ==
    [path |-> ForeignPath2,
     batches |-> << << Entry_new_term(Op_new("Set", 1, 0, 0, 0), 0, 2) >> >>]

\* the directories a Wal meets: empty, one journal, and two journals that
\* fs::read_dir lists with the later one first
DirInputs == { << >>, << ForeignJournal >>, << ForeignJournal2, ForeignJournal >> }

InitWal ==
    /\ ThreadsInit
    /\ \E d \in DirInputs : WalNew(d)
    /\ JournalNew
    /\ ScanNone
    /\ RobtNone
    /\ kind = "llrb"
    /\ lsm = FALSE
    /\ llrb = [root |-> None, seqno |-> 0]
    /\ heap = << >>
    /\ snaps = << MvccRoot_new >>
    /\ views = << View(<< >>, MvccRoot_new) >>
    /\ op = Op("new", 0, 0, "ok", None)
    /\ nops = 0
    /\ written = {}

NextWal ==
    \/ \E n \in Shards : Wal_create(n)
    \/ Wal_load
    \/ Wal_spawn_writer
    \/ \E c \in Callers, s \in Shards, k \in WalKeys : OpWriter_set(c, s, k)
    \/ \E c \in Callers, s \in Shards, k \in WalKeys, cas \in WalCas :
          OpWriter_set_cas(c, s, k, cas)
    \/ \E c \in Callers, s \in Shards, k \in WalKeys : OpWriter_delete(c, s, k)
    \/ \E c \in Callers : OpWriter_recv(c)
    \/ \E s \in Shards : Shard_recv(s)
    \/ \E b \in Cutoffs : Wal_purge_before(b)
    \/ Wal_drop
    \/ Wal_drop_join
    \/ Wal_replay

SpecWal == InitWal /\ [][NextWal]_vars

\* =========================================================================
\* A journal and the bytes of its batches (src/src/wal.rs)
\* =========================================================================
JKeys == 1..NumJournalKeys

\* ---- integers as big-endian bytes --------------------------------------------------
Zeros(k) == [i \in 1..k |-> 0]

u16_to_be_bytes(x) == << (x \div 256) % 256, x % 256 >>

u32_to_be_bytes(x) ==
    << (x \div 16777216) % 256, (x \div 65536) % 256, (x \div 256) % 256, x % 256 >>

\* the values here stay below 2^31: the upper four bytes are zero
u64_to_be_bytes(x) == Zeros(4) \o u32_to_be_bytes(x)

\* u64::from_be_bytes followed by try_into::<usize>, for the eight bytes b: whether
\* the number is below 2^31, and the number when it is
FitsInt(b) == b[1] = 0 /\ b[2] = 0 /\ b[3] = 0 /\ b[4] = 0 /\ b[5] < 128

u64_from_be_bytes(b) == b[5] * 16777216 + b[6] * 65536 + b[7] * 256 + b[8]

\* "vawval-treatment" and "no-consensus" as ASCII bytes
BATCH_MARKER ==
    << 118, 97, 119, 118, 97, 108, 45, 116, 114, 101, 97, 116, 109, 101, 110, 116 >>

DEFAULT_NODE == << 110, 111, 45, 99, 111, 110, 115, 101, 110, 115, 117, 115 >>

\* ---- encoding --------------------------------------------------------------------
\* Serialize::encode of a key or a value: eight bytes
Serialize_encode(x) == u64_to_be_bytes(x)

\* Op::encode_set: hdr1 = (OpType::Set << 32) | klen, then vlen, key, value
Op_encode_set(kb, vb) ==
    u32_to_be_bytes(1) \o u32_to_be_bytes(Len(kb)) \o u64_to_be_bytes(Len(vb)) \o kb \o vb

\* Op::encode_delete: hdr1 = (OpType::Delete << 32) | klen, then the key
Op_encode_delete(kb) == u32_to_be_bytes(3) \o u32_to_be_bytes(Len(kb)) \o kb

Op_encode(o) ==
    IF o.type = "Delete" THEN Op_encode_delete(Serialize_encode(o.key))
    ELSE Op_encode_set(Serialize_encode(o.key), Serialize_encode(o.value))

\* Entry::encode_term: EntryType::Term, term, index, op
Entry_encode_term(e) ==
    u64_to_be_bytes(1) \o u64_to_be_bytes(e.term) \o u64_to_be_bytes(e.index)
        \o Op_encode(e.op)

\* entries.iter().map(|e| e.encode(buf))
RECURSIVE Entries_encode(_)
Entries_encode(es) ==
    IF es = << >> THEN << >> ELSE Entry_encode_term(Head(es)) \o Entries_encode(Tail(es))

\* Batch::encode_config of vec![] and Batch::encode_votedfor
Batch_encode_config == u16_to_be_bytes(0)

Batch_encode_votedfor(v) == u16_to_be_bytes(Len(v)) \o v

\* what encode_native appends after the eight bytes reserved for the length and
\* before the trailing length: term, committed, persisted (0 in a batch made by
\* Batch::new), start_index, nentries, config, votedfor, the entries, the marker
Batch_encode_body(es) ==
    u64_to_be_bytes(0) \o u64_to_be_bytes(0) \o u64_to_be_bytes(0)
        \o u64_to_be_bytes(es[1].index) \o u64_to_be_bytes(Len(es))
        \o Batch_encode_config \o Batch_encode_votedfor(DEFAULT_NODE)
        \o Entries_encode(es) \o BATCH_MARKER

\* n = 48 + m + BATCH_MARKER.len() + 8, m the bytes of config, votedfor and entries
Batch_encode_size(es) ==
    48 + (Len(Batch_encode_config) + Len(Batch_encode_votedfor(DEFAULT_NODE))
             + Len(Entries_encode(es)))
       + Len(BATCH_MARKER) + 8

\* buf[..8].copy_from_slice(..): the first eight bytes of the whole buffer
CopyToFront(buf, bytes) == bytes \o SubSeq(buf, Len(bytes) + 1, Len(buf))

\* Batch::encode_native(&self, buf): the buffer afterwards
Batch_encode_native(buf, es) ==
    CopyToFront(buf \o Zeros(8) \o Batch_encode_body(es)
                    \o u64_to_be_bytes(Batch_encode_size(es)),
                u64_to_be_bytes(Batch_encode_size(es)))

\* ---- decoding --------------------------------------------------------------------
\* util::check_remaining(buf, want, ..): an error when fewer bytes are left
util_check_remaining(buf, want) == Len(buf) >= want

\* Batch::validate once n = length and m = n - 8 are known to be slice bounds:
\* the trailing length, then the marker at m - 16 .. m
Batch_validate_at(buf, n, m) ==
    IF SubSeq(buf, m + 1, n) # SubSeq(buf, 1, 8) THEN "InvalidWAL"
    ELSE IF m < Len(BATCH_MARKER) THEN "abort"
    ELSE IF SubSeq(buf, m - Len(BATCH_MARKER) + 1, m) # BATCH_MARKER THEN "InvalidWAL"
    ELSE "Ok"

\* Batch::validate: `n - 8` below zero, `buf[m..n]` past the end of buf and
\* `m - 16` below zero end the thread with a panic
Batch_validate(buf) ==
    IF ~FitsInt(SubSeq(buf, 1, 8)) THEN "abort"
    ELSE IF u64_from_be_bytes(SubSeq(buf, 1, 8)) < 8 THEN "abort"
    ELSE IF u64_from_be_bytes(SubSeq(buf, 1, 8)) > Len(buf) THEN "abort"
    ELSE Batch_validate_at(buf, u64_from_be_bytes(SubSeq(buf, 1, 8)),
                           u64_from_be_bytes(SubSeq(buf, 1, 8)) - 8)

\* Batch::decode_refer
Batch_decode_refer(buf) ==
    IF ~util_check_remaining(buf, 40) THEN "InvalidWAL" ELSE Batch_validate(buf)

\* ---- the operations on a journal ---------------------------------------------------
\* Journal::add_entry with the entry handle_set / handle_delete builds
Journal_log(type, k) ==
    /\ Len(jactive) < MaxEntries
    /\ jactive' = Append(jactive,
           Entry_new_term(Op_new(type, k, Len(jactive) + 1, 0, 0), 0, Len(jactive)))
    /\ UNCHANGED << jbuffer, jfile, jflushed, jres, jdec >>
    /\ UNCHANGED << kind, lsm, llrb, heap, snaps, views, op, nops, written, threads,
                    walvars, scanvars, robtvars >>

\* Journal::flush after encode_native left buf in self.buffer and returned n: the
\* whole buffer is written; the buffer and the active batch stay as they are
Journal_flush_write(buf, n) ==
    /\ jbuffer' = buf
    /\ jfile' = jfile \o buf
    /\ jres' = IF n # Len(buf) THEN "PartialWrite" ELSE "Ok"
    /\ jflushed' = Append(jflushed, jactive)

\* Journal::flush; with no entry in the batch `entries[0]` panics
Journal_flush ==
    /\ Len(jflushed) < MaxFlushes
    /\ IF jactive = << >>
       THEN /\ jres' = "abort"
            /\ UNCHANGED << jbuffer, jfile, jflushed >>
       ELSE Journal_flush_write(Batch_encode_native(jbuffer, jactive),
                                Batch_encode_size(jactive))
    /\ UNCHANGED << jactive, jdec >>
    /\ UNCHANGED << kind, lsm, llrb, heap, snaps, views, op, nops, written, threads,
                    walvars, scanvars, robtvars >>

\* ---- damaged batches ----------------------------------------------------------------
\* the bytes buf with those from position at on replaced by bytes
Overwrite(buf, at, bytes) ==
    [i \in 1..Len(buf) |->
        IF i >= at /\ i < at + Len(bytes) THEN bytes[i - at + 1] ELSE buf[i]]

\* one field of a well-formed batch damaged: the leading length or the trailing
\* length set to v, or the byte v of the marker zeroed
Damage(buf, field, v) ==
    IF field = "leading" THEN Overwrite(buf, 1, u64_to_be_bytes(v))
    ELSE IF field = "trailing" THEN Overwrite(buf, Len(buf) - 7, u64_to_be_bytes(v))
    ELSE IF field = "marker" THEN Overwrite(buf, Len(buf) - 8 - Len(BATCH_MARKER) + v, << 0 >>)
    ELSE buf

\* the values a damaged field is given, for a batch of n bytes: lengths below
\* the framing, inside the batch, just off the right one and past the end
DamageValues(field, n) ==
    IF field = "marker" THEN 1..Len(BATCH_MARKER)
    ELSE IF field = "none" THEN {0}
    ELSE {0, 1, 7, 8, 9, 23, 24, 25, n - 8, n - 1, n + 1, n + 8}

Batch_decode_damaged(field, v, buf) ==
    jdec' = Some([field |-> field, value |-> v,
                  result |-> Batch_decode_refer(Damage(buf, field, v))])

\* the batch of the active entries, encoded into an empty buffer, damaged and
\* decoded
Batch_decode ==
    /\ jactive # << >>
    /\ \E field \in {"none", "leading", "trailing", "marker"} :
          \E v \in DamageValues(field, Batch_encode_size(jactive)) :
              Batch_decode_damaged(field, v, Batch_encode_native(<< >>, jactive))
    /\ UNCHANGED << jactive, jbuffer, jfile, jflushed, jres >>
    /\ UNCHANGED << kind, lsm, llrb, heap, snaps, views, op, nops, written, threads,
                    walvars, scanvars, robtvars >>

NextJournal ==
    \/ \E k \in JKeys : Journal_log("Set", k)
    \/ \E k \in JKeys : Journal_log("Delete", k)
    \/ Journal_flush
    \/ Batch_decode

InitJournal == InitWal /\ dir = << >>

SpecJournal == InitJournal /\ [][NextJournal]_vars

\* =========================================================================
\* SkipScan (src/src/scans.rs)
\* =========================================================================
ScanKeys == 1..NumScanKeys

\* an item Err(err) among the items of a batch; the entries are their keys, 1 and up
ScanErr == 0

ScanBounds ==
    {Unbounded} \cup {Included(k) : k \in ScanKeys} \cup {Excluded(k) : k \in ScanKeys}

\* a key against a lower and an upper bound
AboveStart(b, k) ==
    IF b.t = "Included" THEN k >= b.k ELSE IF b.t = "Excluded" THEN k > b.k ELSE TRUE

BelowEnd(b, k) ==
    IF b.t = "Included" THEN k <= b.k ELSE IF b.t = "Excluded" THEN k < b.k ELSE TRUE

\* the keys of a set in ascending order
RECURSIVE Ascending(_)
Ascending(ks) ==
    IF ks = {} THEN << >>
    ELSE << CHOOSE k \in ks : \A j \in ks : k <= j >>
         \o Ascending(ks \ {CHOOSE k \in ks : \A j \in ks : k <= j})

\* PiecewiseScan::pw_scan(from, within): the entries above the lower bound, in
\* key order
pw_scan(idx, from) == Ascending({k \in idx : AboveStart(from, k)})

\* what one pw_scan iterator hands out before it ends: all the entries, or some
\* of them and then Retry(key) with the key it stopped at (the last entry found,
\* or the excluded lower bound when it found none)
Pieces(all, from) ==
    {[found |-> all, retry |-> None]}
        \cup {[found |-> SubSeq(all, 1, c), retry |-> Some(all[c])] : c \in 1..Len(all)}
        \cup (IF from.t = "Excluded" THEN {[found |-> << >>, retry |-> Some(from.k)]}
              ELSE {})

\* SkipScan::refill on the items of one pw_scan: entries with enumerate index
\* i <= batch_size are taken, the next Found is taken too and ends the batch
SkipScan_refill(b, p) ==
    IF Len(p.found) >= b + 2
    THEN [tag |-> "Ok", entries |-> SubSeq(p.found, 1, b + 2), key |-> Some(p.found[b + 2])]
    ELSE IF is_some(p.retry)
    THEN [tag |-> "Retry", entries |-> p.found, key |-> p.retry]
    ELSE [tag |-> "Finish", entries |-> p.found, key |-> None]

\* SkipScan::is_last_batch
SkipScan_is_last_batch(key_end, entries) ==
    IF entries = << >> THEN TRUE
    ELSE IF entries[Len(entries)] = ScanErr THEN TRUE
    ELSE IF key_end.t = "Unbounded" THEN FALSE
    ELSE IF key_end.t = "Included" THEN entries[Len(entries)] > key_end.k
    ELSE entries[Len(entries)] >= key_end.k

\* the scan resumed at the key itself
SkipScan_resume_included(key) == Included(key)

\* `self.key_start = Bound::Excluded(key)`
SkipScan_resume(key) == Excluded(key)

\* SkipScan::next, the arm `None =>`: the batch refill returned becomes self.iter
SkipScan_next_batch(sc, r) ==
    IF r.tag = "Retry" /\ r.entries = << >>
    THEN [sc EXCEPT !.key_start = SkipScan_resume(unwrap(r.key))]
    ELSE [sc EXCEPT !.key_start = IF is_some(r.key) THEN SkipScan_resume(unwrap(r.key))
                                  ELSE sc.key_start,
                    !.batch_size = IF r.tag = "Finish" THEN 0 ELSE sc.batch_size,
                    !.last_batch = SkipScan_is_last_batch(sc.key_end, r.entries),
                    !.iter = r.entries]

ScanStep ==
    UNCHANGED << kind, lsm, llrb, heap, snaps, views, op, nops, written, threads,
                 walvars, jrnvars, robtvars >>

\* SkipScan::next with self.iter empty and batch_size > 0: one refill
SkipScan_next_refill ==
    /\ ~scan.ended /\ scan.iter = << >> /\ scan.batch_size # 0
    /\ \E p \in Pieces(pw_scan(scan.index, scan.key_start), scan.key_start) :
          /\ is_some(p.retry) => scan.retries < MaxRetries
          /\ scan' = [SkipScan_next_batch(scan, SkipScan_refill(scan.batch_size, p))
                        EXCEPT !.retries = IF is_some(p.retry) THEN scan.retries + 1
                                           ELSE scan.retries]
    /\ ScanStep

\* SkipScan::next with an item in self.iter: an entry is yielded, or, in the
\* last batch, it is past key_end (or key_end is Unbounded) and the scan is over;
\* an Err is yielded and sets batch_size to 0
SkipScan_next_entry ==
    /\ ~scan.ended /\ scan.iter # << >>
    /\ scan' = IF Head(scan.iter) = ScanErr
               THEN [scan EXCEPT !.batch_size = 0, !.out = Append(scan.out, ScanErr),
                                 !.iter = Tail(scan.iter)]
               ELSE IF ~scan.last_batch
                  \/ (scan.key_end.t # "Unbounded" /\ BelowEnd(scan.key_end, Head(scan.iter)))
               THEN [scan EXCEPT !.out = Append(scan.out, Head(scan.iter)),
                                 !.iter = Tail(scan.iter)]
               ELSE [scan EXCEPT !.batch_size = 0, !.iter = << >>, !.ended = TRUE]
    /\ ScanStep

\* SkipScan::next with self.iter empty and batch_size == 0: None
SkipScan_next_none ==
    /\ ~scan.ended /\ scan.iter = << >> /\ scan.batch_size = 0
    /\ scan' = [scan EXCEPT !.ended = TRUE]
    /\ ScanStep

InitScan ==
    /\ ThreadsInit
    /\ WalNew(<< >>)
    /\ JournalNew
    /\ RobtNone
    /\ \E idx \in SUBSET ScanKeys, ks \in ScanBounds, ke \in ScanBounds, b \in 1..MaxBatch :
          scan = SkipScan_new(idx, ks, ke, b)
    /\ kind = "llrb"
    /\ lsm = FALSE
    /\ llrb = [root |-> None, seqno |-> 0]
    /\ heap = << >>
    /\ snaps = << MvccRoot_new >>
    /\ views = << View(<< >>, MvccRoot_new) >>
    /\ op = Op("new", 0, 0, "ok", None)
    /\ nops = 0
    /\ written = {}

NextScan ==
    \/ SkipScan_next_refill
    \/ SkipScan_next_entry
    \/ SkipScan_next_none

SpecScan == InitScan /\ [][NextScan]_vars

\* ---- a scan whose reader reports an error
\* SkipScan::refill when pw_scan returns Err, or its iterator hands out `found`
\* and then an Err item before the batch is full: Refill::Ok(entries, None) with
\* the Err as last item
SkipScan_refill_err(found) ==
    [tag |-> "Ok", entries |-> Append(found, ScanErr), key |-> None]

\* the items SkipScan is to yield once the batch found, Err has come in
SkipScan_want(sc, found) ==
    IF \A i \in 1..Len(found) : BelowEnd(sc.key_end, found[i])
    THEN Some(sc.out \o Append(found, ScanErr))
    ELSE None

\* SkipScan::next with self.iter empty and batch_size > 0: a refill that meets
\* an error after c entries (c = 0 also stands for pw_scan itself returning Err)
SkipScan_next_refill_err ==
    /\ ~scan.ended /\ scan.iter = << >> /\ scan.batch_size # 0 /\ ~scan.failed
    /\ \E c \in 0..(scan.batch_size + 1) :
          /\ c <= Len(pw_scan(scan.index, scan.key_start))
          /\ scan' = [SkipScan_next_batch(scan,
                          SkipScan_refill_err(SubSeq(pw_scan(scan.index, scan.key_start), 1, c)))
                        EXCEPT !.failed = TRUE,
                               !.want = SkipScan_want(scan,
                                   SubSeq(pw_scan(scan.index, scan.key_start), 1, c))]
    /\ ScanStep

NextScanErr ==
    \/ SkipScan_next_refill
    \/ SkipScan_next_entry
    \/ SkipScan_next_none
    \/ SkipScan_next_refill_err

SpecScanErr == InitScan /\ [][NextScanErr]_vars

\* =========================================================================
\* Robt: the meta items at the tip of the index file (src/src/robt.rs)
\* =========================================================================
MARKER_BLOCK_SIZE == 4096

\* the marker of robt_marker.rs: a fixed sentinel of ASCII bytes ("robt")
ROOT_MARKER == << 114, 111, 98, 116 >>

\* Config::compute_root_block, rounding up also a multiple of the block size
compute_root_block_next(n) == ((n \div MARKER_BLOCK_SIZE) + 1) * MARKER_BLOCK_SIZE

\* Config::compute_root_block
compute_root_block(n) ==
    IF n % MARKER_BLOCK_SIZE = 0 THEN n
    ELSE ((n \div MARKER_BLOCK_SIZE) + 1) * MARKER_BLOCK_SIZE

\* enum MetaItem
MetaItem_Root(fpos) == [t |-> "Root", v |-> fpos]
MetaItem_AppMetadata(md) == [t |-> "AppMetadata", v |-> md]
MetaItem_Stats(s) == [t |-> "Stats", v |-> s]
MetaItem_Marker(data) == [t |-> "Marker", v |-> data]

\* Vec::resize(n, 0) of a shorter vector, then copy_within(0..m, shift): the
\* bytes below shift stay what resize left there
copy_within(block, m, shift) ==
    [i \in 1..Len(block) |-> IF i <= shift THEN block[i] ELSE block[i - shift]]

meta_block_place(block, n) ==
    copy_within(block \o Zeros(n - Len(block)), Len(block), n - Len(block))

\* write_meta_items: the header of four big-endian u64 after the three payloads,
\* moved to the end of a whole number of marker blocks, appended to the file
meta_block(items) ==
    items[2].v \o items[3].v \o items[4].v
        \o u64_to_be_bytes(items[1].v) \o u64_to_be_bytes(Len(items[2].v))
        \o u64_to_be_bytes(Len(items[3].v)) \o u64_to_be_bytes(Len(items[4].v))

write_meta_items(file, items) ==
    [file |-> file \o meta_block_place(meta_block(items),
                                       compute_root_block(Len(meta_block(items)))),
     n |-> compute_root_block(Len(meta_block(items)))]

\* read_meta_items on the block of n bytes that ends the file of m bytes
read_meta_block(block, m, n, root, n_md, n_stats, n_marker) ==
    IF SubSeq(block, n - 32 - n_marker + 1, n - 32) # ROOT_MARKER
    THEN [ok |-> FALSE, err |-> "InvalidSnapshot", items |-> << >>]
    ELSE IF m - n # root
    THEN [ok |-> FALSE, err |-> "InvalidSnapshot", items |-> << >>]
    ELSE [ok |-> TRUE, err |-> "",
          items |-> << MetaItem_Root(root),
                       MetaItem_AppMetadata(SubSeq(block, n - 32 - n_marker - n_stats - n_md + 1,
                                                   n - 32 - n_marker - n_stats)),
                       MetaItem_Stats(SubSeq(block, n - 32 - n_marker - n_stats + 1,
                                             n - 32 - n_marker)),
                       MetaItem_Marker(SubSeq(block, n - 32 - n_marker + 1, n - 32)) >>]

read_meta_header(file, m, root, n_md, n_stats, n_marker) ==
    IF compute_root_block(n_stats + n_md + n_marker + 32) > m
    THEN [ok |-> FALSE, err |-> "panic", items |-> << >>]
    ELSE read_meta_block(
             SubSeq(file, m - compute_root_block(n_stats + n_md + n_marker + 32) + 1, m),
             m, compute_root_block(n_stats + n_md + n_marker + 32),
             root, n_md, n_stats, n_marker)

read_meta_items(file) ==
    IF Len(file) < 32 THEN [ok |-> FALSE, err |-> "panic", items |-> << >>]
    ELSE read_meta_header(file, Len(file),
             u64_from_be_bytes(SubSeq(file, Len(file) - 31, Len(file) - 24)),
             u64_from_be_bytes(SubSeq(file, Len(file) - 23, Len(file) - 16)),
             u64_from_be_bytes(SubSeq(file, Len(file) - 15, Len(file) - 8)),
             u64_from_be_bytes(SubSeq(file, Len(file) - 7, Len(file))))

\* the inputs: payloads that fill the marker block exactly, stay below it and
\* go past it; the marker of the build and two others; the position the meta
\* region starts at and another
AppMetaOf(n) == [i \in 1..n |-> (i - 1) % 256]

AppMetaLens ==
    {0, 1, MARKER_BLOCK_SIZE - 32 - Len(ROOT_MARKER) - 2,
     MARKER_BLOCK_SIZE - 32 - Len(ROOT_MARKER)}

StatsStrings == {<< >>, << 123, 125 >>}

Markers == {ROOT_MARKER, Tail(ROOT_MARKER), [ROOT_MARKER EXCEPT ![1] = 0]}

IndexFiles == {<< >>, << 1, 2, 3, 4, 5 >>}

MetaStep ==
    UNCHANGED << kind, lsm, llrb, heap, snaps, views, op, nops, written, threads,
                 walvars, jrnvars, scanvars, builder, iflusher, handed, opened,
                 snapshot, rd >>

\* write_meta_items(file, [Root, AppMetadata, Stats, Marker])
Meta_write ==
    /\ is_none(meta.items)
    /\ \E d \in {0, 1}, n \in AppMetaLens, st \in StatsStrings, mk \in Markers :
          /\ meta' = [meta EXCEPT
                 !.items = Some(<< MetaItem_Root(Len(ifile) + d),
                                   MetaItem_AppMetadata(AppMetaOf(n)),
                                   MetaItem_Stats(st), MetaItem_Marker(mk) >>),
                 !.wrote = Some(write_meta_items(ifile, << MetaItem_Root(Len(ifile) + d),
                                   MetaItem_AppMetadata(AppMetaOf(n)),
                                   MetaItem_Stats(st), MetaItem_Marker(mk) >>).n)]
          /\ ifile' = write_meta_items(ifile, << MetaItem_Root(Len(ifile) + d),
                                   MetaItem_AppMetadata(AppMetaOf(n)),
                                   MetaItem_Stats(st), MetaItem_Marker(mk) >>).file
    /\ MetaStep

\* read_meta_items(dir, name)
Meta_read ==
    /\ is_some(meta.wrote) /\ is_none(meta.read)
    /\ meta' = [meta EXCEPT !.read = Some(read_meta_items(ifile))]
    /\ UNCHANGED ifile
    /\ MetaStep

InitMeta ==
    /\ ThreadsInit
    /\ WalNew(<< >>)
    /\ JournalNew
    /\ ScanNone
    /\ ifile \in IndexFiles
    /\ MetaNone
    /\ BuilderNone
    /\ SnapshotNone
    /\ kind = "llrb"
    /\ lsm = FALSE
    /\ llrb = [root |-> None, seqno |-> 0]
    /\ heap = << >>
    /\ snaps = << MvccRoot_new >>
    /\ views = << View(<< >>, MvccRoot_new) >>
    /\ op = Op("new", 0, 0, "ok", None)
    /\ nops = 0
    /\ written = {}

NextMeta ==
    \/ Meta_write
    \/ Meta_read

SpecMeta == InitMeta /\ [][NextMeta]_vars

\* =========================================================================
\* Robt: Builder, Flusher, Snapshot (src/src/robt.rs)
\* =========================================================================
\* an entry as the builder sees it: its key, its newest seqno (Entry::to_seqno)
\* and whether it is a tombstone; key i carries seqno i
RobtEntry(k) == [key |-> k, seqno |-> k, deleted |-> FALSE]

RobtInput(n) == [i \in 1..n |-> RobtEntry(i)]

TombPurges == {None} \cup {Some(p) : p \in 1..MaxPurge}

\* Entry::purge(cutoff): None when the newest seqno is within the cutoff bound
Entry_purge(entry, cutoff) ==
    IF cutoff.t = "Included" /\ entry.seqno <= cutoff.k THEN None
    ELSE IF cutoff.t = "Excluded" /\ entry.seqno < cutoff.k THEN None
    ELSE IF cutoff.t = "Unbounded" THEN None
    ELSE Some(entry)

\* Builder::preprocess
Builder_preprocess(tomb_purge, entry) ==
    IF is_some(tomb_purge) THEN Entry_purge(entry, Excluded(unwrap(tomb_purge)))
    ELSE Some(entry)

\* ---- ZBlock and MBlock: a count, then three bytes an entry, then zeros
MEntry(key, fpos, z) == [key |-> key, fpos |-> fpos, z |-> z]

ZBlock_overflows(z) == 1 + 3 * (Len(z) + 1) > z_blocksize

MBlock_overflows(m) == 1 + 3 * (Len(m) + 1) > m_blocksize

RECURSIVE ZEntries_encode(_)
ZEntries_encode(z) ==
    IF z = << >> THEN << >>
    ELSE << z[1].key, z[1].seqno, IF z[1].deleted THEN 1 ELSE 0 >> \o ZEntries_encode(Tail(z))

RECURSIVE MEntries_encode(_)
MEntries_encode(m) ==
    IF m = << >> THEN << >>
    ELSE << m[1].key, m[1].fpos, IF m[1].z THEN 1 ELSE 0 >> \o MEntries_encode(Tail(m))

\* ZBlock::finalize, MBlock::finalize: the block padded to its block size
ZBlock_finalize(z) == << Len(z) >> \o ZEntries_encode(z) \o Zeros(z_blocksize - 1 - 3 * Len(z))

MBlock_finalize(m) == << Len(m) >> \o MEntries_encode(m) \o Zeros(m_blocksize - 1 - 3 * Len(m))

\* ZBlock::new_decode, MBlock::new_decode at a file position
ZBlock_new_decode(file, fpos) ==
    [i \in 1..file[fpos + 1] |->
        [key |-> file[fpos + 3 * i - 1], seqno |-> file[fpos + 3 * i],
         deleted |-> file[fpos + 3 * i + 1] = 1]]

MBlock_new_decode(file, fpos) ==
    [i \in 1..file[fpos + 1] |->
        MEntry(file[fpos + 3 * i - 1], file[fpos + 3 * i], file[fpos + 3 * i + 1] = 1)]

Pop(v) == SubSeq(v, 1, Len(v) - 1)

Last(v) == v[Len(v)]

\* Builder::insertms: (key, mfpos) goes into the m-block on top of ms; a full
\* block is flushed and its first key goes one level up
RECURSIVE Builder_insertms(_, _, _, _)
Builder_insertms_over(res, key, mfpos, m0) ==
    [ms |-> Append(res.ms, << MEntry(key, mfpos, FALSE) >>), fpos |-> res.fpos,
     out |-> << MBlock_finalize(m0) >> \o res.out]

Builder_insertms(ms, fpos, key, mfpos) ==
    IF ms = << >>
    THEN [ms |-> << << MEntry(key, mfpos, FALSE) >> >>, fpos |-> fpos, out |-> << >>]
    ELSE IF ~MBlock_overflows(Last(ms))
    THEN [ms |-> Append(Pop(ms), Append(Last(ms), MEntry(key, mfpos, FALSE))),
          fpos |-> fpos, out |-> << >>]
    ELSE Builder_insertms_over(
             Builder_insertms(Pop(ms), fpos + m_blocksize, Last(ms)[1].key, fpos),
             key, mfpos, Last(ms))

\* build_tree, after `c.fpos += zbytes`: the flushed z-block goes into the
\* m-block popped from c.ms; in the overflow arm the popped block is flushed,
\* reset and given the z-block, and is not pushed back
Builder_insertz_over(c, res) ==
    [c EXCEPT !.ms = res.ms, !.fpos = res.fpos, !.out = c.out \o res.out]

Builder_insertz(c) ==
    IF ~MBlock_overflows(Last(c.ms))
    THEN [c EXCEPT !.ms = Append(Pop(c.ms), Append(Last(c.ms), MEntry(c.z[1].key, c.zfpos, TRUE)))]
    ELSE Builder_insertz_over(
             [c EXCEPT !.out = Append(c.out, MBlock_finalize(Last(c.ms)))],
             Builder_insertms(Pop(c.ms), c.fpos + m_blocksize, Last(c.ms)[1].key, c.fpos))

\* build_tree: c.z.finalize, c.z.flush, c.fpos += zbytes, then the m-blocks
Builder_flush_z(c) ==
    Builder_insertz([c EXCEPT !.out = Append(c.out, ZBlock_finalize(c.z)),
                              !.fpos = c.fpos + z_blocksize])

Builder_reset_z(c, entry) == [c EXCEPT !.zfpos = c.fpos, !.z = << entry >>]

\* build_tree: the body of `for entry in iter` for an entry preprocess kept
Builder_insert(c, entry) ==
    IF ~ZBlock_overflows(c.z) THEN [c EXCEPT !.z = Append(c.z, entry)]
    ELSE Builder_reset_z(Builder_flush_z(c), entry)

\* build_tree: `while let Some(mut m) = c.ms.pop()`
RECURSIVE Builder_flush_ms(_)
Builder_flush_ms_up(c, m, res) ==
    Builder_flush_ms([c EXCEPT !.ms = res.ms, !.fpos = res.fpos,
                               !.out = Append(c.out, MBlock_finalize(m)) \o res.out])

Builder_flush_ms(c) ==
    IF c.ms = << >> THEN c
    ELSE IF Last(c.ms) # << >> /\ Len(c.ms) = 1
    THEN Builder_flush_ms([c EXCEPT !.ms = << >>, !.fpos = c.fpos + m_blocksize,
                                    !.out = Append(c.out, MBlock_finalize(Last(c.ms)))])
    ELSE IF Last(c.ms) # << >>
    THEN Builder_flush_ms_up(c, Last(c.ms),
             Builder_insertms(Pop(c.ms), c.fpos + m_blocksize, Last(c.ms)[1].key, c.fpos))
    ELSE Builder_flush_ms([c EXCEPT !.ms = Pop(c.ms)])

\* build_tree after the loop: the final z-block, then the m-blocks; c.fpos is
\* what it returns
Builder_tree_end(c) ==
    IF c.z # << >> THEN Builder_flush_ms(Builder_flush_z(c)) ELSE Builder_flush_ms(c)

\* Flusher::send for each block of one step, in order
Flusher_send(f, blocks) == [f EXCEPT !.chan = f.chan \o blocks]

\* Stats::to_string: the JSON text, on whose content the layout of the file does
\* not depend
Stats_to_string == << 123, 125 >>

APP_META == << 104, 105 >>

RobtStep ==
    UNCHANGED << kind, lsm, llrb, heap, snaps, views, op, nops, written, threads,
                 walvars, jrnvars, scanvars, meta, snapshot, rd >>

\* build_tree: one turn of `for entry in iter`
Builder_build_tree_entry_kept(c) ==
    /\ builder' = [builder EXCEPT !.next = builder.next + 1, !.c = [c EXCEPT !.out = << >>],
                                  !.kept = Append(builder.kept, Last(c.z))]
    /\ iflusher' = Flusher_send(iflusher, c.out)
    /\ handed' = handed \o c.out

Builder_build_tree_entry ==
    /\ builder.pc = "tree" /\ builder.next <= Len(builder.input)
    /\ Len(iflusher.chan) + 3 <= FLUSH_QUEUE_SIZE
    /\ IF is_none(Builder_preprocess(builder.tomb_purge, builder.input[builder.next]))
       THEN /\ builder' = [builder EXCEPT !.next = builder.next + 1]
            /\ UNCHANGED << iflusher, handed >>
       ELSE Builder_build_tree_entry_kept(
                Builder_insert(builder.c,
                    unwrap(Builder_preprocess(builder.tomb_purge, builder.input[builder.next]))))
    /\ UNCHANGED << ifile, opened >>
    /\ RobtStep

\* build_tree: the input is exhausted, the last blocks are flushed, Ok(c.fpos)
Builder_build_tree_end_with(c) ==
    /\ builder' = [builder EXCEPT !.pc = "meta", !.c = [c EXCEPT !.out = << >>],
                                  !.root = Some(c.fpos)]
    /\ iflusher' = Flusher_send(iflusher, c.out)
    /\ handed' = handed \o c.out

Builder_build_tree_end ==
    /\ builder.pc = "tree" /\ builder.next > Len(builder.input)
    /\ Len(iflusher.chan) + 6 <= FLUSH_QUEUE_SIZE
    /\ Builder_build_tree_end_with(Builder_tree_end(builder.c))
    /\ UNCHANGED << ifile, opened >>
    /\ RobtStep

\* build: write_meta_items(self.iflusher.file.clone(), meta_items)
Builder_write_meta ==
    /\ builder.pc = "meta"
    /\ ifile' = write_meta_items(ifile, << MetaItem_Root(unwrap(builder.root)),
                                          MetaItem_AppMetadata(APP_META),
                                          MetaItem_Stats(Stats_to_string),
                                          MetaItem_Marker(ROOT_MARKER) >>).file
    /\ builder' = [builder EXCEPT !.pc = "close"]
    /\ UNCHANGED << iflusher, handed, opened >>
    /\ RobtStep

\* Flusher::close_wait: mem::drop(self.tx)
Builder_close_wait ==
    /\ builder.pc = "close"
    /\ iflusher' = [iflusher EXCEPT !.tx = FALSE]
    /\ builder' = [builder EXCEPT !.pc = "join"]
    /\ UNCHANGED << ifile, handed, opened >>
    /\ RobtStep

\* Flusher::close_wait: self.t.join() gave Ok(Ok(())), build returns Ok(())
Builder_joined ==
    /\ builder.pc = "join" /\ iflusher.t = "exited"
    /\ builder' = [builder EXCEPT !.pc = "built"]
    /\ UNCHANGED << ifile, iflusher, handed, opened >>
    /\ RobtStep

\* File::write through the flusher's descriptor: at the end of the file when it
\* was opened for append, at the descriptor's own position otherwise
fd_write(file, f, data) ==
    IF f.append THEN file \o data
    ELSE [i \in 1..(IF f.pos + Len(data) > Len(file) THEN f.pos + Len(data) ELSE Len(file)) |->
             IF i > f.pos /\ i <= f.pos + Len(data) THEN data[i - f.pos] ELSE file[i]]

\* thread_flush: one turn of `for data in rx.iter()`
thread_flush_write ==
    /\ iflusher.t = "running" /\ iflusher.chan # << >>
    /\ ifile' = fd_write(ifile, iflusher, Head(iflusher.chan))
    /\ iflusher' = [iflusher EXCEPT !.chan = Tail(iflusher.chan),
                                    !.pos = iflusher.pos + Len(Head(iflusher.chan))]
    /\ UNCHANGED << builder, handed, opened >>
    /\ RobtStep

\* thread_flush: the channel is empty and its sender dropped, Ok(())
thread_flush_exit ==
    /\ iflusher.t = "running" /\ iflusher.chan = << >> /\ ~iflusher.tx
    /\ iflusher' = [iflusher EXCEPT !.t = "exited"]
    /\ UNCHANGED << ifile, builder, handed, opened >>
    /\ RobtStep

\* ---- Snapshot
\* Snapshot::to_root: `if let MetaItem::Root(root) = self.meta[3]`
Snapshot_to_root(items) ==
    IF items[4].t = "Root" THEN [ok |-> TRUE, root |-> items[4].v]
    ELSE [ok |-> FALSE, root |-> 0]

\* build_fwd, Iter::next and rebuild_fwd to the end: the entries below the
\* m-block at fpos, z-block by z-block in the order of its entries
RECURSIVE Snapshot_iter_from(_, _, _)
Snapshot_iter_from(file, ms, i) ==
    IF i > Len(ms) THEN << >>
    ELSE (IF ms[i].z THEN ZBlock_new_decode(file, ms[i].fpos)
          ELSE Snapshot_iter_from(file, MBlock_new_decode(file, ms[i].fpos), 1))
         \o Snapshot_iter_from(file, ms, i + 1)

\* Snapshot::iter: snap.to_root().unwrap(), build_fwd, then next() to the end
Snapshot_iter(file, items) ==
    IF ~Snapshot_to_root(items).ok THEN [res |-> "panic", entries |-> << >>]
    ELSE [res |-> "ok",
          entries |-> Snapshot_iter_from(file,
                          MBlock_new_decode(file, Snapshot_to_root(items).root), 1)]

\* Snapshot::open, then iter() and next() until None
Snapshot_open_iter(file, m) ==
    IF ~m.ok THEN [res |-> m.err, entries |-> << >>]
    ELSE Snapshot_iter(file, m.items)

\* MZ::next_back on MZ::Z from `index` (a usize) until it returns None: the
\* entry at index, then `*index -= 1`. At index 0 the subtraction overflows: a
\* build with overflow checks panics there, before the entry is returned; one
\* without wraps to usize::MAX, which to_entry answers with __ZBlockExhausted
RECURSIVE MZ_next_back(_, _, _)
MZ_next_back_more(entry, rest) == [out |-> << entry >> \o rest.out, panic |-> rest.panic]

MZ_next_back_more_all(a, rest) == [out |-> a.out \o rest.out, panic |-> rest.panic]

MZ_next_back(zblock, index, checked) ==
    IF index >= Len(zblock) THEN [out |-> << >>, panic |-> FALSE]
    ELSE IF index = 0
    THEN (IF checked THEN [out |-> << >>, panic |-> TRUE]
          ELSE [out |-> << zblock[1] >>, panic |-> FALSE])
    ELSE MZ_next_back_more(zblock[index + 1], MZ_next_back(zblock, index - 1, checked))

\* build_rev, Reverse::next and rebuild_rev to the end: the entries below the
\* m-block `ms`, from its entry i (counted from 1) down to its first, each
\* child from its last entry; rebuild_rev stops at `index: 0` by its own arm
RECURSIVE Snapshot_reverse_from(_, _, _, _)
Snapshot_reverse_then(a, file, ms, i, checked) ==
    IF a.panic THEN a
    ELSE MZ_next_back_more_all(a, Snapshot_reverse_from(file, ms, i, checked))

Snapshot_reverse_from(file, ms, i, checked) ==
    IF i = 0 THEN [out |-> << >>, panic |-> FALSE]
    ELSE Snapshot_reverse_then(
             IF ms[i].z
             THEN MZ_next_back(ZBlock_new_decode(file, ms[i].fpos),
                               Len(ZBlock_new_decode(file, ms[i].fpos)) - 1, checked)
             ELSE Snapshot_reverse_from(file, MBlock_new_decode(file, ms[i].fpos),
                                        Len(MBlock_new_decode(file, ms[i].fpos)), checked),
             file, ms, i - 1, checked)

\* Snapshot::reverse(..): do_reverse with both bounds Unbounded, then next()
\* until None
Snapshot_reverse_walk(r) ==
    [res |-> IF r.panic THEN "panic" ELSE "ok", entries |-> r.out]

Snapshot_reverse(file, items, checked) ==
    IF ~Snapshot_to_root(items).ok THEN [res |-> "panic", entries |-> << >>]
    ELSE Snapshot_reverse_walk(
             Snapshot_reverse_from(file,
                 MBlock_new_decode(file, Snapshot_to_root(items).root),
                 Len(MBlock_new_decode(file, Snapshot_to_root(items).root)), checked))

Snapshot_open_reverse(file, m, checked) ==
    IF ~m.ok THEN [res |-> m.err, entries |-> << >>]
    ELSE Snapshot_reverse(file, m.items, checked)

\* what the reads of one opened Snapshot gave: iter() to its end and, in rev,
\* reverse(..) to its end
Snapshot_reads(it, rev) == [res |-> it.res, entries |-> it.entries, rev |-> rev]

Snapshot_read ==
    /\ builder.pc = "built" /\ is_none(opened)
    /\ \E checked \in BOOLEAN :
          opened' = Some(Snapshot_reads(
                             Snapshot_open_iter(ifile, read_meta_items(ifile)),
                             Snapshot_open_reverse(ifile, read_meta_items(ifile), checked)))
    /\ UNCHANGED << ifile, builder, iflusher, handed >>
    /\ RobtStep

InitRobt ==
    /\ ThreadsInit
    /\ WalNew(<< >>)
    /\ JournalNew
    /\ ScanNone
    /\ ifile = << >>
    /\ MetaNone
    /\ \E n \in 0..MaxRobtEntries, tp \in TombPurges, append \in BOOLEAN :
          Builder_initial(RobtInput(n), tp, append)
    /\ SnapshotNone
    /\ kind = "llrb"
    /\ lsm = FALSE
    /\ llrb = [root |-> None, seqno |-> 0]
    /\ heap = << >>
    /\ snaps = << MvccRoot_new >>
    /\ views = << View(<< >>, MvccRoot_new) >>
    /\ op = Op("new", 0, 0, "ok", None)
    /\ nops = 0
    /\ written = {}

NextRobt ==
    \/ Builder_build_tree_entry
    \/ Builder_build_tree_end
    \/ Builder_write_meta
    \/ Builder_close_wait
    \/ Builder_joined
    \/ thread_flush_write
    \/ thread_flush_exit
    \/ Snapshot_read

SpecRobt == InitRobt /\ [][NextRobt]_vars

\* ---- threads reading one Snapshot ---------------------------------------
\* the reads of trait Reader, and next() on an iterator they returned
ReaderCalls == {"get", "iter", "range", "reverse"}

CallsOf(r) == ReaderCalls \cup (IF r.iter THEN {"next"} ELSE {})

\* the index file of an empty build, and Snapshot::open on it
EmptyIndex ==
    write_meta_items(<< >>, << MetaItem_Root(0), MetaItem_AppMetadata(APP_META),
                              MetaItem_Stats(Stats_to_string),
                              MetaItem_Marker(ROOT_MARKER) >>).file

Snapshot_open(file) ==
    [meta |-> read_meta_items(file).items, mutex |-> 0, poisoned |-> FALSE]

SnapStep ==
    UNCHANGED << kind, lsm, llrb, heap, snaps, views, op, nops, written, threads,
                 walvars, jrnvars, scanvars, ifile, meta, builder, iflusher, handed,
                 opened >>

\* a thread calls get, iter, range or reverse on the snapshot, which start with
\* `let _lock = self.mutex.lock()`, or next() on an iterator it holds, which
\* goes to rebuild_fwd and fetch without the mutex
Reader_call(t) ==
    /\ rd[t].pc = "idle"
    /\ \E call \in CallsOf(rd[t]) :
          rd' = [rd EXCEPT ![t].call = call,
                           ![t].pc = IF call = "next" THEN "reading" ELSE "lock"]
    /\ UNCHANGED snapshot
    /\ SnapStep

\* self.mutex.lock(): the guard, also when the mutex is poisoned
Reader_lock(t) ==
    /\ rd[t].pc = "lock" /\ snapshot.mutex = 0
    /\ snapshot' = [snapshot EXCEPT !.mutex = t]
    /\ rd' = [rd EXCEPT ![t].pc = "locked"]
    /\ SnapStep

\* self.to_root().unwrap(), the first step of each read: the reads on the
\* descriptors follow, or the thread panics
Reader_to_root(t) ==
    /\ rd[t].pc = "locked"
    /\ rd' = [rd EXCEPT ![t].pc = IF Snapshot_to_root(snapshot.meta).ok THEN "reading"
                                  ELSE "unwinding"]
    /\ UNCHANGED snapshot
    /\ SnapStep

\* the call is over: its reads are done and it returns, or it unwinds; the
\* guard is dropped, poisoning the mutex when the thread panicked
Reader_return(t) ==
    /\ rd[t].pc \in {"reading", "unwinding"}
    /\ snapshot' = [snapshot EXCEPT
          !.mutex = IF snapshot.mutex = t THEN 0 ELSE snapshot.mutex,
          !.poisoned = snapshot.poisoned \/ rd[t].pc = "unwinding"]
    /\ rd' = [rd EXCEPT
          ![t].pc = IF rd[t].pc = "unwinding" THEN "panicked" ELSE "idle",
          ![t].iter = rd[t].iter \/ (rd[t].pc = "reading"
                                       /\ rd[t].call \in {"iter", "range", "reverse"})]
    /\ SnapStep

InitSnap ==
    /\ ThreadsInit
    /\ WalNew(<< >>)
    /\ JournalNew
    /\ ScanNone
    /\ ifile = EmptyIndex
    /\ MetaNone
    /\ BuilderNone
    /\ snapshot = Snapshot_open(ifile)
    /\ rd = [t \in SnapThreads |-> [pc |-> "idle", call |-> "", iter |-> FALSE]]
    /\ kind = "llrb"
    /\ lsm = FALSE
    /\ llrb = [root |-> None, seqno |-> 0]
    /\ heap = << >>
    /\ snaps = << MvccRoot_new >>
    /\ views = << View(<< >>, MvccRoot_new) >>
    /\ op = Op("new", 0, 0, "ok", None)
    /\ nops = 0
    /\ written = {}

NextSnap ==
    \/ \E t \in SnapThreads : Reader_call(t)
    \/ \E t \in SnapThreads : Reader_lock(t)
    \/ \E t \in SnapThreads : Reader_to_root(t)
    \/ \E t \in SnapThreads : Reader_return(t)

SpecSnap == InitSnap /\ [][NextSnap]_vars

\* =========================================================================
\* Properties
\* =========================================================================

\* a public call has just returned (or aborted): op' describes it
CallStep == nops' = nops + 1

Max(S) == IF S = {} THEN 0 ELSE CHOOSE x \in S : \A y \in S : y <= x

\* the seqno an entry reports: the tombstone's when it is deleted
EntrySeqno(e) == IF is_some(e.deleted) THEN unwrap(e.deleted) ELSE e.seqno

\* the seqnos of an entry's versions, in the order the entry holds them:
\* the current value, then deltas[0], deltas[1], ...
VersionSeqnos(e) ==
    << EntrySeqno(e) >> \o [i \in 1..Len(e.deltas) |-> DeltaNode_seqno(e.deltas[i])]

StrictlyDecreasing(s) == \A i \in 1..(Len(s) - 1) : s[i] > s[i + 1]

KeysUnique == \A i, j \in 1..Len(KeySeq) : i # j => KeySeq[i] # KeySeq[j]

C2_FailedCasKeepsContents ==
    [][(CallStep /\ op'.name = "set_cas" /\ op'.result = "InvalidCAS")
         => (IndexEntries' = IndexEntries /\ IndexLen' = IndexLen)]_vars

\* C3: a set_cas that returns InvalidCAS does not advance get_seqno().
C3_FailedCasKeepsSeqno ==
    [][(CallStep /\ op'.name = "set_cas" /\ op'.result = "InvalidCAS")
         => get_seqno' = get_seqno]_vars

Tombstoned(o) == is_some(o) /\ is_some(unwrap(o).deleted)

\* C4: every successful set, set_cas or delete moves the index seqno to the
\* pre-call seqno plus one; the value a set or set_cas wrote is the entry's current
\* value, live and tagged with the new seqno; the tombstone an LSM delete wrote
\* (on an entry that had none) is tagged with the new seqno.
C4_SeqnoStep ==
    [][\A k \in Keys :
         (CallStep /\ op'.result = "ok" /\ op'.key = k) =>
            /\ get_seqno' = get_seqno + 1
            /\ op'.name \in {"set", "set_cas"} =>
                  /\ is_some(Get(k)')
                  /\ unwrap(Get(k)').value = NewValue
                  /\ unwrap(Get(k)').seqno = get_seqno'
                  /\ is_none(unwrap(Get(k)').deleted)
            /\ (op'.name = "delete" /\ lsm /\ is_some(Get(k)') /\ ~Tombstoned(Get(k))) =>
                  unwrap(Get(k)').deleted = Some(get_seqno')]_vars

\* C4 witness: an LSM delete has just tombstoned an entry written by an earlier set
C4_TombstoneWritten ==
    /\ lsm /\ op.name = "delete" /\ op.result = "ok"
    /\ get_seqno >= 2
    /\ is_some(Get(op.key))
    /\ unwrap(Get(op.key)).seqno < get_seqno
    /\ unwrap(Get(op.key)).deleted = Some(get_seqno)

\* the cas values set_cas is to accept for the entry `o` found under the key
CasAdmits(o, cas) ==
    IF is_none(o) THEN cas = 0
    ELSE IF is_none(unwrap(o).deleted) THEN cas = unwrap(o).seqno
    ELSE cas = 0 \/ cas = unwrap(unwrap(o).deleted)

\* C5: set_cas(k, v, cas) succeeds exactly when k is absent and cas = 0, or k is
\* live and cas is its seqno, or k is tombstoned and cas is 0 or the tombstone
\* seqno; otherwise it returns InvalidCAS and writes nothing.
C5_CasRule ==
    [][\A k \in Keys :
         (CallStep /\ op'.name = "set_cas" /\ op'.key = k) =>
            /\ (op'.result = "ok") <=> CasAdmits(Get(k), op'.cas)
            /\ op'.result # "ok" =>
                  (op'.result = "InvalidCAS" /\ IndexEntries' = IndexEntries)]_vars

\* C6: in every state a public call leaves behind, validate succeeds on the tree:
\* no consecutive reds, equal black height left and right, keys strictly ordered.
C6_ValidateSucceeds == Validate.err = ""

\* C6 witness: a non-LSM delete that left at least two keys in the tree
C6_TreeAfterDelete ==
    /\ ~lsm /\ op.name = "delete" /\ op.result = "ok" /\ is_some(op.old)
    /\ Len(IndexEntries) >= 2

\* C7: in non-LSM mode delete(k) of a present key removes exactly k: get(k) finds
\* nothing afterwards, every other key keeps its entry, len drops by one and the
\* call returns the entry it removed.
C7_DeleteRemovesExactlyKey ==
    [][\A k \in Keys :
         (CallStep /\ ~lsm /\ op'.name = "delete" /\ op'.key = k /\ is_some(Get(k))) =>
            /\ op'.result = "ok"
            /\ is_none(Get(k)')
            /\ \A j \in Keys \ {k} : Get(j)' = Get(j)
            /\ IndexLen' = IndexLen - 1
            /\ op'.old = Get(k)]_vars

\* C8: in LSM mode no call removes a key: every key that was ever written is
\* still in the index.
C8_LsmKeepsKeys == lsm => written \subseteq KeySet

\* C9: in LSM mode the versions of every entry are held newest first:
\* seqno(value) > seqno(deltas[0]) > ... > seqno(deltas[last]).
C9_VersionsNewestFirst ==
    lsm => \A i \in 1..Len(IndexEntries) :
              StrictlyDecreasing(VersionSeqnos(IndexEntries[i]))

EntrySeqnos == {EntrySeqno(IndexEntries[i]) : i \in 1..Len(IndexEntries)}

\* C10 as stated: keys are unique and the index seqno is the maximum seqno over
\* the entries the index holds.
C10_SeqnoIsMax == KeysUnique /\ get_seqno = Max(EntrySeqnos)

\* C10: keys are unique and no version of any entry (value, tombstone or older
\* version) carries a seqno above the index seqno.
C10_SeqnoBounds ==
    /\ KeysUnique
    /\ \A i \in 1..Len(IndexEntries) :
          /\ IndexEntries[i].seqno <= get_seqno
          /\ \A j \in 1..Len(VersionSeqnos(IndexEntries[i])) :
                VersionSeqnos(IndexEntries[i])[j] <= get_seqno

\* C10 witness: an index of two or more keys whose seqno has moved past the
\* seqno of every entry it holds
C10_SeqnoAheadOfEntries ==
    /\ Len(IndexEntries) >= 2
    /\ get_seqno > Max(EntrySeqnos)

\* ---- threads around the Mvcc snapshot chain -------------------------------------
\* the Box<Arc<MvccRoot>> handles shift_snapshot has taken back and dropped: all
\* but the one the head pointer designates
Released(i) == i < Len(snaps)

\* C11: a reader acquires the latest snapshot atomically with respect to the
\* writer: whenever a reader takes its reference (Arc::clone), the handle it goes
\* through is not one that shift_snapshot has already released.
C11_AtomicAcquire ==
    [][\A r \in Readers :
          (rpc[r] = "loaded" /\ rpc'[r] = "holding") => ~Released(rptr[r])]_vars

\* C12: a node on a reclaim list is never freed while a reader holds a snapshot
\* from which the node is reachable.
C12_ReclaimSafe ==
    \A r \in Readers :
        rpc[r] = "holding" => Mvcc_nodes(heap, snaps[rptr[r]].root) \cap Freed = {}

\* the writers inside a call: between capturing the snapshot and returning
Fenced == {w \in Writers : wpc[w] # "idle"}

\* C13: Mvcc writers are mutually exclusive: at most one writer is between
\* capture and publish, and every snapshot that is published was built by a
\* writer that had captured the head (no stale predecessor, no lost update).
C13_WritersExclusive ==
    [][/\ Cardinality(Fenced') <= 1
       /\ (Len(snaps') > Len(snaps) =>
              \E w \in Fenced : /\ wpc[w] = "fenced"
                                 /\ warc[w] = Len(snaps)
                                 /\ wpc'[w] \in {"idle", "shifted"})]_vars

\* a writer is inside the fence on top of a snapshot an earlier call published
C13_WriterInsideFence ==
    \E w \in Writers : wpc[w] = "fenced" /\ fencer = w /\ warc[w] = Len(snaps)
                       /\ Len(snaps) > 2


\* ---- the write-ahead log ----------------------------------------------------------
\* the call of caller c returns in this step
Returns(c) == calls[c].pc = "waiting" /\ calls'[c].pc = "returned"

\* the entries a shard built for the request rid
EntriesOf(rid) == {e \in LoggedEntries : e.op.rid = rid}

\* C14: a Set, SetCAS or Delete sent through an OpWriter to a running shard is
\* answered with Ok(index): once the shard has taken the request and built its
\* entry, the answer the call returns with is Ok carrying the index of that entry.
C14_AnsweredOk ==
    \A c \in Callers :
        calls[c].pc = "returned" =>
            \A e \in EntriesOf(calls[c].rid) : calls[c].result = << "Ok", e.index >>

\* the entry e is in a batch of a file of the directory d
OnDisk(d, e) ==
    \E i \in 1..Len(d) : \E b \in 1..Len(d[i].batches) :
        \E j \in 1..Len(d[i].batches[b]) : d[i].batches[b][j] = e

\* C15: a call returns to its caller only after the batch holding its entry was
\* appended to the journal file and synced: at the step the call returns, the
\* entry is in the file.
C15_DurableBeforeAnswer ==
    [][\A c \in Callers :
          Returns(c) => \A e \in EntriesOf(calls[c].rid) : OnDisk(dir, e)]_vars

StrictlyIncreasingIndex(es) == \A i \in 1..(Len(es) - 1) : es[i].index < es[i + 1].index

JournalSet(jrns) == {jrns[i] : i \in 1..Len(jrns)}

\* C17: when purge_before(cutoff) has completed, every journal of a running shard
\* whose last index is below the cutoff has left the shard's list and its file is
\* unlinked, and every journal the shard had with last index >= cutoff is still
\* listed and on disk.
C17_PurgeBefore ==
    [][(is_some(purged') /\ purged' # purged) =>
          \A s \in Shards : shards[s].state = "running" =>
              \A j \in JournalSet(shards[s].journals) :
                  IF Journal_last_index(j) < unwrap(purged')
                  THEN /\ j \notin JournalSet(shards'[s].journals)
                       /\ ~FileExists(dir', j.path)
                  ELSE /\ j \in JournalSet(shards'[s].journals)
                       /\ FileExists(dir', j.path)]_vars

\* what a writer shows after the entries es were applied to it in index order:
\* for each key the operation with the highest index
LastOp(es, k) ==
    IF \A e \in es : e.op.key # k THEN None
    ELSE Some(LET last == CHOOSE e \in es :
                              e.op.key = k /\ \A f \in es : f.op.key = k => f.index <= e.index
              IN  [type |-> last.op.type, value |-> last.op.value])

Visible(es) == [k \in WalKeys |-> LastOp({e \in es : e.op.rid # 0}, k)]

SeqSet(q) == {q[i] : i \in 1..Len(q)}

\* C18: after the Wal was closed and loaded again, a replay that is not refused
\* leaves a fresh writer in the state that applying the accepted operations
\* directly gives.
C18_ReplayRoundTrip ==
    (is_some(replay) /\ unwrap(replay).result # "InvalidWAL") =>
        Visible(SeqSet(unwrap(replay).applied)) = Visible(acked)


\* ---- the bytes of a journal ---------------------------------------------------------
\* the bytes f start with a well-formed batch: a leading length n that covers at
\* least the framing and at most f, the same length in the last eight bytes of
\* the n, and the marker before it
WellFormedAt(f, n) ==
    /\ n >= 48 + Len(BATCH_MARKER) + 8
    /\ n <= Len(f)
    /\ SubSeq(f, n - 7, n) = SubSeq(f, 1, 8)
    /\ SubSeq(f, n - 7 - Len(BATCH_MARKER), n - 8) = BATCH_MARKER

StartsWithBatch(f) ==
    /\ Len(f) >= 8
    /\ FitsInt(SubSeq(f, 1, 8))
    /\ WellFormedAt(f, u64_from_be_bytes(SubSeq(f, 1, 8)))

Prepend(x, o) == IF is_none(o) THEN None ELSE Some(<< x >> \o unwrap(o))

\* the batches the bytes f are a concatenation of, or None when they are not one
RECURSIVE Frames(_)
Frames(f) ==
    IF f = << >> THEN Some(<< >>)
    ELSE IF ~StartsWithBatch(f) THEN None
    ELSE Prepend(SubSeq(f, 1, u64_from_be_bytes(SubSeq(f, 1, 8))),
                 Frames(SubSeq(f, u64_from_be_bytes(SubSeq(f, 1, 8)) + 1, Len(f))))

\* the batch of bytes frame carries the entries es: start_index, nentries, and the
\* encoded entries between votedfor and the marker
FrameHolds(frame, es) ==
    /\ SubSeq(frame, 33, 40) = u64_to_be_bytes(es[1].index)
    /\ SubSeq(frame, 41, 48) = u64_to_be_bytes(Len(es))
    /\ SubSeq(frame, 49 + Len(Batch_encode_config) + Len(Batch_encode_votedfor(DEFAULT_NODE)),
              Len(frame) - 8 - Len(BATCH_MARKER)) = Entries_encode(es)

FramesHold(frames, batches) ==
    /\ Len(frames) = Len(batches)
    /\ \A i \in 1..Len(frames) : FrameHolds(frames[i], batches[i])

\* C19: after any number of flushes the journal file is a concatenation of
\* well-formed batches (leading length = trailing length = size of the batch,
\* marker in place), one per flushed batch and in the order of the flushes, each
\* carrying the entries of its batch.
C19_FileIsBatches ==
    /\ is_some(Frames(jfile))
    /\ FramesHold(unwrap(Frames(jfile)), jflushed)

\* C20: decoding a batch whose leading length, trailing length or marker was
\* damaged ends with the error InvalidWAL, whatever the damage: it neither
\* succeeds nor aborts.
C20_DamageIsInvalidWAL ==
    (is_some(jdec) /\ unwrap(jdec).field # "none") => unwrap(jdec).result = "InvalidWAL"


\* ---- journal names, Close -----------------------------------------------------------
\* the directory entry f is the journal a shard of this Wal created for shard id
CreatedFor(f, id) == f.path = Journal_path(WalName, id)

\* C21: the file a shard created for WAL name n and shard id i is recognised by
\* Journal::load as a journal of n, with shard id i and the journal number it was
\* created with; so Wal::load finds every journal the shards created.
C21_NamesRoundTrip ==
    \A i \in 1..Len(dir) : \A id \in Shards :
        CreatedFor(dir[i], id) =>
            /\ is_some(Journal_load(WalName, dir[i]))
            /\ unwrap(Journal_load(WalName, dir[i])).id = id
            /\ unwrap(Journal_load(WalName, dir[i])).num = 1

\* C30: once the worker of a shard has ended (Close received), every entry the
\* shard had accepted into its active batch is in the journal file.
C30_CloseFlushes ==
    \A s \in Shards :
        shards[s].state = "exited" =>
            \A j \in 1..Len(ActiveEntries(shards[s])) :
                OnDisk(dir, ActiveEntries(shards[s])[j])


\* ---- published nodes ------------------------------------------------------------------
\* the nodes reachable from some published snapshot
Published(h, ss) == UNION {Mvcc_nodes(h, ss[i].root) : i \in 1..Len(ss)}

\* C28: the nodes reachable from a published snapshot are immutable, the dirty
\* flag included: no such node has dirty = TRUE, at the moment of publication or
\* later, and no step of a writer changes a node that is reachable from a
\* published snapshot.
C28_PublishedImmutable ==
    [][/\ \A a \in Published(heap', snaps') : ~heap'[a].dirty
       /\ \A a \in Published(heap, snaps) : heap'[a] = heap[a]]_vars


\* ---- n_count ----------------------------------------------------------------------------
\* what the call that has just returned must have done to n_count: +1 when it
\* added a key (set or set_cas of an absent key, LSM delete of an absent key), -1
\* when a non-LSM delete removed a key, 0 otherwise
CountStep(o, absent) ==
    IF o.result # "ok" THEN 0
    ELSE IF o.name \in {"set", "set_cas"} THEN (IF absent THEN 1 ELSE 0)
    ELSE IF o.name = "delete" /\ lsm THEN (IF absent THEN 1 ELSE 0)
    ELSE IF o.name = "delete" THEN (IF absent THEN 0 ELSE -1)
    ELSE 0

\* C29: in every published Mvcc snapshot n_count is the number of keys in the
\* snapshot's tree, and a call changes it by +1 exactly when it adds a key, by -1
\* exactly when a non-LSM delete removes a key, and by 0 otherwise.
C29_CountIsKeys ==
    [][kind = "mvcc" =>
         /\ \A i \in 1..Len(snaps') :
               snaps'[i].n_count = Cardinality(Mvcc_nodes(heap', snaps'[i].root))
         /\ CallStep =>
               snaps'[Len(snaps')].n_count =
                   snaps[Len(snaps)].n_count + CountStep(op', op'.key \notin KeySet)]_vars

\* C29 witness: the snapshots published so far include one that added a key to a
\* non-empty tree, one that kept the count and one that removed a key
C29_CountWentUpAndDown ==
    /\ kind = "mvcc"
    /\ \E i \in 1..(Len(snaps) - 1) :
          snaps[i].n_count >= 1 /\ snaps[i + 1].n_count = snaps[i].n_count + 1
    /\ \E i \in 1..(Len(snaps) - 1) :
          snaps[i].n_count >= 1 /\ snaps[i + 1].n_count = snaps[i].n_count
    /\ \E i \in 1..(Len(snaps) - 1) : snaps[i + 1].n_count = snaps[i].n_count - 1


\* ---- SkipScan -----------------------------------------------------------------------------
\* the entries of the index within the key range the scan was given, ascending
ScanExpected ==
    Ascending({k \in scan.index : AboveStart(scan.range[1], k) /\ BelowEnd(scan.range[2], k)})

IsPrefix(a, b) == Len(a) <= Len(b) /\ a = SubSeq(b, 1, Len(a))

\* C22: whatever the index holds and wherever pw_scan answers Retry, what
\* SkipScan has yielded is at every moment the beginning of the ascending
\* sequence of the entries in the key range (nothing skipped, duplicated or out
\* of order), and when next() returns None it has yielded all of them.
C22_SkipScanComplete ==
    /\ IsPrefix(scan.out, ScanExpected)
    /\ scan.ended => scan.out = ScanExpected

\* C22 witness: a scan over a bounded key range that met two Retry signals, left
\* entries of the index out and has ended after yielding three
C22_ScanEndedAfterRetries ==
    /\ scan.ended
    /\ scan.retries >= 2
    /\ Len(scan.out) >= 3
    /\ Len(scan.out) < Cardinality(scan.index)


\* ---- Robt meta items ----------------------------------------------------------------------
MetaPayload(items) == Len(items[2].v) + Len(items[3].v) + Len(items[4].v)

\* the smallest multiple of the marker block size that is >= x
SmallestBlocks(x) ==
    CHOOSE n \in 0..(x + MARKER_BLOCK_SIZE) :
        /\ n % MARKER_BLOCK_SIZE = 0
        /\ n >= x
        /\ n - MARKER_BLOCK_SIZE < x

MetaAppended ==
    is_some(meta.wrote) => unwrap(meta.wrote) = SmallestBlocks(32 + MetaPayload(unwrap(meta.items)))

\* C24 as stated: whatever the root position and the marker, read_meta_items
\* returns the four items written, and the bytes appended are the smallest
\* multiple of 4096 >= 32 + the payload lengths.
C24_MetaRoundTripAny ==
    /\ MetaAppended
    /\ is_some(meta.read) =>
          unwrap(meta.read).ok /\ unwrap(meta.read).items = unwrap(meta.items)

\* C24: when the marker is ROOT_MARKER and the root position is where the meta
\* region starts, read_meta_items returns the four items written, in the order
\* Root, AppMetadata, Stats, Marker; with another marker or root position it
\* fails with InvalidSnapshot; in every case the bytes appended are the smallest
\* multiple of 4096 >= 32 + the three payload lengths.
C24_MetaRoundTrip ==
    /\ MetaAppended
    /\ is_some(meta.read) =>
          IF /\ unwrap(meta.items)[4].v = ROOT_MARKER
             /\ unwrap(meta.items)[1].v = Len(ifile) - unwrap(meta.wrote)
          THEN /\ unwrap(meta.read).ok
               /\ unwrap(meta.read).items = unwrap(meta.items)
               /\ << unwrap(meta.read).items[1].t, unwrap(meta.read).items[2].t,
                     unwrap(meta.read).items[3].t, unwrap(meta.read).items[4].t >>
                     = << "Root", "AppMetadata", "Stats", "Marker" >>
          ELSE ~unwrap(meta.read).ok /\ unwrap(meta.read).err = "InvalidSnapshot"

\* C24 witness: meta items whose payloads with the header fill one marker block
\* exactly were appended to a file that had bytes and were read back
C24_ReadBackFullBlock ==
    /\ is_some(meta.read)
    /\ unwrap(meta.read).ok
    /\ 32 + MetaPayload(unwrap(meta.items)) = MARKER_BLOCK_SIZE
    /\ unwrap(meta.wrote) = MARKER_BLOCK_SIZE
    /\ Len(ifile) > MARKER_BLOCK_SIZE


\* ---- Robt build and read ------------------------------------------------------------------
\* the blocks handed to the flusher, one after the other
RECURSIVE Concat(_)
Concat(blocks) == IF blocks = << >> THEN << >> ELSE Head(blocks) \o Concat(Tail(blocks))

\* the entries of the input a tombstone purge at `tomb_purge` is to keep
RECURSIVE PurgeKeeps(_, _)
PurgeKeeps(entries, tomb_purge) ==
    IF entries = << >> THEN << >>
    ELSE (IF is_some(tomb_purge) /\ entries[1].seqno <= unwrap(tomb_purge) THEN << >>
          ELSE << entries[1] >>) \o PurgeKeeps(Tail(entries), tomb_purge)

\* C23: a full forward iteration over the index reopened after a build yields
\* the entries of the input the builder kept, in the same order.
C23_BuildOpenIter ==
    is_some(opened) =>
        /\ unwrap(opened).res = "ok"
        /\ unwrap(opened).entries = builder.kept

\* C25: when build has returned Ok, the index file is the blocks handed to the
\* flusher, in order, followed by the meta region, and its final 32 bytes are
\* [root_fpos, app_meta_len, stats_len, marker_len] as big-endian u64.
C25_BlocksThenTrailer ==
    builder.pc = "built" =>
        /\ Len(ifile) = Len(Concat(handed))
                          + compute_root_block(32 + Len(APP_META) + Len(Stats_to_string)
                                                  + Len(ROOT_MARKER))
        /\ SubSeq(ifile, 1, Len(Concat(handed))) = Concat(handed)
        /\ SubSeq(ifile, Len(ifile) - 31, Len(ifile))
              = u64_to_be_bytes(unwrap(builder.root)) \o u64_to_be_bytes(Len(APP_META))
                  \o u64_to_be_bytes(Len(Stats_to_string)) \o u64_to_be_bytes(Len(ROOT_MARKER))

\* C26: of the entries the builder has gone through, it kept exactly those whose
\* newest seqno is > the purge seqno (all of them without a purge seqno).
C26_PurgeAtOrBelow ==
    builder.kept = PurgeKeeps(SubSeq(builder.input, 1, builder.next - 1), builder.tomb_purge)


C37_SetCasTotal ==
    [][(CallStep /\ op'.name = "set_cas") =>
          /\ op'.result \in {"ok", "InvalidCAS"}
          /\ (kind = "mvcc" /\ is_none(Snapshot_clone.root) /\ op'.cas > 0) =>
                op'.result = "InvalidCAS"]_vars

\* C38: in non-LSM mode delete(k) of a key that is not in the index, the empty
\* index included, returns None without aborting, leaves every entry and len as
\* they were, and leaves a tree on which validate succeeds.
C38_DeleteAbsent ==
    [][\A k \in Keys :
         (CallStep /\ ~lsm /\ op'.name = "delete" /\ op'.key = k /\ is_none(Get(k))) =>
            /\ op'.result = "ok"
            /\ op'.old = None
            /\ IndexEntries' = IndexEntries
            /\ IndexLen' = IndexLen
            /\ Validate'.err = ""]_vars

\* C34: an LSM delete of a key whose entry is already tombstoned leaves the entry
\* as it was: the tombstone keeps the seqno the first delete gave it and no
\* version is added.
C34_DeleteIdempotent ==
    [][\A k \in Keys :
         (CallStep /\ lsm /\ op'.name = "delete" /\ op'.key = k /\ Tombstoned(Get(k))) =>
            /\ op'.result = "ok"
            /\ Get(k)' = Get(k)]_vars

\* ---- Llrb::iter: full iteration in batches -------------------------------------
\* the `limit` Llrb::iter and Iter::next hand to scan (100 in the source), scaled
\* so that an index of NumKeys entries takes more than one batch
IterLimit == 2

\* scan(node, key, limit, acc): the in-order walk above `key` that stops once acc
\* holds `limit` nodes; more = the bool it returns
RECURSIVE Llrb_scan(_, _, _, _)
Llrb_scan_center(node, key, limit, l) ==
    IF ~l.more THEN l
    ELSE IF Len(l.acc) + 1 >= limit
    THEN [acc |-> Append(l.acc, LNode_clone_detach(unwrap(node))), more |-> FALSE]
    ELSE Llrb_scan(unwrap(node).right, key, limit,
                   Append(l.acc, LNode_clone_detach(unwrap(node))))

Llrb_scan(node, key, limit, acc) ==
    IF is_none(node) THEN [acc |-> acc, more |-> TRUE]
    ELSE IF key.t # "Unbounded" /\ unwrap(node).key <= key.k
    THEN Llrb_scan(unwrap(node).right, key, limit, acc)
    ELSE Llrb_scan_center(node, key, limit,
                          Llrb_scan(unwrap(node).left, key, limit, acc))

\* acc.into_iter().rev(): the batch as node_iter hands it out, last node first
RECURSIVE IntoIter_rev(_)
IntoIter_rev(acc) ==
    IF acc = << >> THEN << >>
    ELSE << acc[Len(acc)] >> \o IntoIter_rev(SubSeq(acc, 1, Len(acc) - 1))

Iter_node_iter(acc) == IntoIter_rev(acc)

\* Llrb::iter followed by Iter::next until it returns None: each batch is scanned
\* from after_key, handed out through node_iter, and after_key moves to the key
\* of acc.last(); an empty batch sets `empty`
RECURSIVE Llrb_iter_from(_, _, _)
Llrb_iter_batch(root, acc, out) ==
    IF Len(acc) = 0 THEN out
    ELSE Llrb_iter_from(root, Excluded(acc[Len(acc)].key), out \o Iter_node_iter(acc))

Llrb_iter_from(root, after_key, out) ==
    Llrb_iter_batch(root, Llrb_scan(root, after_key, IterLimit, << >>).acc, out)

Llrb_iter(root) == Llrb_iter_from(root, Unbounded, << >>)

\* what full iteration over the index yields, as (key, seqno) of each item
IterItems ==
    IF kind = "llrb"
    THEN [i \in 1..Len(Llrb_iter(llrb.root)) |->
            << Llrb_iter(llrb.root)[i].key, Llrb_iter(llrb.root)[i].valn.seqno >>]
    ELSE [i \in 1..Len(IndexEntries) |-> << IndexEntries[i].key, IndexEntries[i].seqno >>]

\* C39: full iteration over an in-memory index yields every entry of the index
\* exactly once, in strictly ascending key order, also when the index holds more
\* entries than one scan batch.
C39_IterAscending ==
    /\ Len(IterItems) = Len(IndexEntries)
    /\ \A i \in 1..Len(IndexEntries) :
          \E j \in 1..Len(IterItems) :
             IterItems[j] = << IndexEntries[i].key, IndexEntries[i].seqno >>
    /\ \A i \in 1..(Len(IterItems) - 1) : IterItems[i][1] < IterItems[i + 1][1]

\* ---- the meta items of an opened Snapshot -----------------------------------------
\* Snapshot::to_app_meta: `if let MetaItem::AppMetadata(data) = &self.meta[1]`
Snapshot_to_app_meta(items) ==
    IF items[2].t = "AppMetadata" THEN [ok |-> TRUE, data |-> items[2].v]
    ELSE [ok |-> FALSE, data |-> << >>]

\* Snapshot::to_stats: `if let MetaItem::Stats(stats) = &self.meta[2]`
Snapshot_to_stats(items) ==
    IF items[3].t = "Stats" THEN [ok |-> TRUE, stats |-> items[3].v]
    ELSE [ok |-> FALSE, stats |-> << >>]

\* C40: on a snapshot opened from the index file a build wrote, to_root,
\* to_app_meta and to_stats each succeed and return the Root, AppMetadata and
\* Stats item that was written; none of them reports InvalidSnapshot.
C40_MetaAccessors ==
    (is_some(opened) /\ read_meta_items(ifile).ok) =>
        /\ Snapshot_to_root(read_meta_items(ifile).items)
              = [ok |-> TRUE, root |-> unwrap(builder.root)]
        /\ Snapshot_to_app_meta(read_meta_items(ifile).items)
              = [ok |-> TRUE, data |-> APP_META]
        /\ Snapshot_to_stats(read_meta_items(ifile).items)
              = [ok |-> TRUE, stats |-> Stats_to_string]

\* ---- the tree build_tree leaves in the file ------------------------------------------
\* the file position of the i-th block handed to the flusher
BlockPos(i) == Len(Concat(SubSeq(handed, 1, i - 1)))

\* the entries of the m-block at fpos and of every m-block below it
RECURSIVE TreeRefs(_, _, _)
TreeRefs(file, ms, i) ==
    IF i > Len(ms) THEN << >>
    ELSE << ms[i] >>
         \o (IF ms[i].z THEN << >>
             ELSE TreeRefs(file, MBlock_new_decode(file, ms[i].fpos), 1))
         \o TreeRefs(file, ms, i + 1)

\* the entries of the interior blocks of the tree whose root is the last block
\* handed to the flusher
RootRefs ==
    TreeRefs(Concat(handed), MBlock_new_decode(Concat(handed), BlockPos(Len(handed))), 1)

RefsTo(fpos) == {j \in 1..Len(RootRefs) : RootRefs[j].fpos = fpos}

\* C32: in the file the builder produced, every flushed block other than the
\* root (leaf or interior) is referenced by exactly one entry of an interior
\* block of the tree, and that entry carries the block's first key and its file
\* position; this includes the leaf whose insertion made an interior block
\* overflow.
C32_EveryBlockReferenced ==
    (is_some(builder.root) /\ handed # << >>) =>
        \A i \in 1..(Len(handed) - 1) :
            /\ Cardinality(RefsTo(BlockPos(i))) = 1
            /\ \A j \in RefsTo(BlockPos(i)) : RootRefs[j].key = handed[i][2]

\* C33: build_tree terminates on every finite input, the empty one included; when
\* it returns, the last block flushed is the single root block and the value
\* returned is the file position of that block.
C33_ReturnsRootPosition ==
    is_some(builder.root) =>
        /\ handed # << >>
        /\ unwrap(builder.root) = BlockPos(Len(handed))

\* the sequence s back to front
RECURSIVE Reversed(_)
Reversed(s) == IF s = << >> THEN << >> ELSE Reversed(Tail(s)) \o << Head(s) >>

\* C35: reverse iteration over a snapshot opened from a built index yields the
\* entries of the range (here the whole index) in strictly descending key order
\* and then ends, also when it steps back past index 0 of a leaf or interior
\* block: it does not abort and the block index never goes below 0.
C35_ReverseDescending ==
    (is_some(opened) /\ read_meta_items(ifile).ok) =>
        /\ unwrap(opened).rev.res = "ok"
        /\ unwrap(opened).rev.entries = Reversed(builder.kept)

\* C36: when pw_scan, or an item of the iterator it returned, reports an error,
\* SkipScan yields that error after the Ok entries that preceded it in the batch
\* and only then ends: the error is not dropped, whether the key end bound is
\* unbounded, included or excluded.
C36_ErrorYielded ==
    (scan.ended /\ is_some(scan.want)) => scan.out = unwrap(scan.want)

\* ---- Wal::replay over the journals Wal::load found ------------------------------
JournalBefore(a, b) == a.id < b.id \/ (a.id = b.id /\ a.num < b.num)

JournalsInOrder(jrns) ==
    \A i, j \in 1..Len(jrns) : i < j => JournalBefore(jrns[i], jrns[j])

\* the entries of the journals, journal by journal and batch by batch
RECURSIVE JournalsEntries(_)
JournalsEntries(jrns) ==
    IF jrns = << >> THEN << >>
    ELSE Concat(Head(jrns).batches) \o JournalsEntries(Tail(jrns))

\* C31: a replay over the journals a load found visits them in (shard id,
\* journal number) order, whatever order the directory listed the files in, and
\* applies their entries batch by batch in ascending index order.
C31_ReplayInOrder ==
    [][(is_none(replay) /\ is_some(replay') /\ wal.nthreads = 0 /\ wal.journals # << >>) =>
          /\ JournalsInOrder(wal.journals)
          /\ unwrap(replay').result = "Ok"
          /\ unwrap(replay').applied = JournalsEntries(wal.journals)]_vars

====
